---- MODULE Spec2Model ----
(***************************************************************************)
(* Model of wp_audio_trigger.py: the per-block processing loop of main(),  *)
(* i.e. pre/post ring buffers, trigger evaluation, AND/OR combination,     *)
(* hold accumulation and the event recorder with end_event().              *)
(*                                                                         *)
(* Time is counted in whole seconds.  Block number k (k = 1, 2, ...) is    *)
(* the k-th block read from the stream; it spans the seconds               *)
(* (k-1)*block_sec .. k*block_sec and is processed at clock k*block_sec.   *)
(* A captured block (its samples x and its level record rec) is            *)
(* represented by its number.                                              *)
(***************************************************************************)
EXTENDS Integers, Sequences, FiniteSets, TLC

VARIABLES
    cfg,              \* analyzer_config as loaded at start-up (fixed for the run)
    t,                \* number of blocks read so far
    running,          \* FALSE once an exception has left the while-loop
    pre_buf,          \* deque(maxlen) of audio blocks
    spec_buf,         \* deque(maxlen) of level records
    post_buf_audio,   \* deque(maxlen) of audio blocks
    post_buf_spec,    \* deque(maxlen) of level records
    S,                \* the recorder dictionary S
    trigger_log,      \* list of logged trigger transitions
    trigger_states,   \* dict key -> [start_time, start_amp]
    is_triggered,     \* the loop-local is_triggered: [bound, val]
    prominent_buffer, \* main.prominent_buffer: [has, maxlen, items]
    sum_level,        \* latest_payload["sum_level"] (NoneVal before the first flush)
    latest_payload,   \* the other fields of latest_payload: [la, avg, ts]
    spectrum_publish_buffer, \* the blocks since the last flush
    spectrum_rolling_buffer, \* the published averages kept for the rolling average
    last_spec_pub,    \* time of the last flush
    stream,           \* the capture stream: "active" or "closed"
    sse_seen,         \* the snapshot last sent by the /sse handler thread (empty: none)
    call,             \* arguments of a call of one of the pure functions
    ret,              \* its return value
    record_spectrum,  \* record_spectrum["enabled"]
    switch_state,     \* the retained value of <topic>/record_spectrum/state
    files,            \* event directory -> record written by end_event
    written,          \* event ids in the order end_event wrote their files
    published,        \* payloads published on <topic>/event, in order
    obs,              \* locals of the last iteration (LA, trigger_event, ...)
    hist              \* history: consecutive true / false blocks, timer restored,
                      \* consecutive prominent blocks, log entries older than
                      \* the hold onset

vars == <<cfg, t, running, pre_buf, spec_buf, post_buf_audio, post_buf_spec, S,
          trigger_log, trigger_states, is_triggered, prominent_buffer, sum_level,
          latest_payload, spectrum_publish_buffer, spectrum_rolling_buffer,
          last_spec_pub, stream, sse_seen, call, ret, record_spectrum,
          switch_state, files, written, published, obs, hist>>

---------------------------------------------------------------------------
(* Bounds of the model *)

\* number of blocks read in the general specifications
MaxBlocks == 6

\* number of blocks read in the end-to-end scenario
ScenarioBlocks == 48

---------------------------------------------------------------------------
(* Program constants *)

\* args.post = 30  # Fixed post-trigger time
PostSec == 30

\* args.hold_sec = 2
HoldSec == 2

\* Python's None in the numeric slots of S and of latest_payload
NoneVal == -1

\* the key "sum" of trigger_states and of the trigger log
SumKey == 0

---------------------------------------------------------------------------
(* Small helpers *)

Max(a, b) == IF a >= b THEN a ELSE b

SetMax(s) == CHOOSE x \in s : \A y \in s : y <= x

SetMin(s) == CHOOSE x \in s : \A y \in s : x <= y


\* mutant of DequeAppend: a full deque refuses the new element
DequeAppendKeepOldest(q, x, n) == IF Len(q) < n THEN Append(q, x) ELSE q

\* deque(maxlen=n).append(x) on a deque holding q
DequeAppend(q, x, n) ==
    IF Len(q) < n THEN Append(q, x) ELSE Append(Tail(q), x)

\* Python list slice q[idx:] for 0 <= idx
SliceFrom(q, idx) == SubSeq(q, idx + 1, Len(q))

EmptyMap == [x \in {} |-> 0]

MapPut(m, k, v) == [x \in DOMAIN m \cup {k} |-> IF x = k THEN v ELSE m[x]]

MapDel(m, k) == [x \in DOMAIN m \ {k} |-> m[x]]

---------------------------------------------------------------------------
(* Conversions *)

\* bool(freq) of a frequency selector coming from the UI
Truthy(s) == s # ""

\* float(freq): the set holding the parsed value, empty when float() raises
ParseFloat(s) ==
    CASE s = "63" -> {63}
      [] s = "125" -> {125}
      [] s = "500" -> {500}
      [] s = "999" -> {999}
      [] s = "1000" -> {1000}
      [] s = "6.3e1" -> {63}
      [] OTHER -> {}

\* str(freq).replace('.', '', 1).isdigit()
IsDigitForm(s) == s \in {"63", "125", "500", "999", "1000"}

\* now_utc(): strftime("%Y-%m-%dT%H-%M-%SZ"), the clock to the second
NowUtc(clock) == clock

\* datetime.fromisoformat(ts.replace('Z', '+00:00')) on a now_utc() string:
\* the time part uses '-' separators, which fromisoformat rejects (ValueError),
\* so the set of parsed values is empty
FromIsoformat(ts) == {}

\* the try/except around the two fromisoformat calls and total_seconds()
LogDuration(start_ts, end_ts) ==
    IF FromIsoformat(start_ts) = {} \/ FromIsoformat(end_ts) = {}
    THEN 0
    ELSE (CHOOSE e \in FromIsoformat(end_ts) : TRUE)
         - (CHOOSE s \in FromIsoformat(start_ts) : TRUE)

---------------------------------------------------------------------------
(* Sizes derived from the configuration *)

\* pre_buf / spec_buf: maxlen = max(1, int(args.pre / block_sec))
PreMaxLen(c) == Max(1, c.preBuffer \div c.block_sec)

\* post_buf_audio / post_buf_spec: maxlen = max(1, int(args.post / block_sec))
PostMaxLen(c) == Max(1, PostSec \div c.block_sec)

\* prominent_buffer: maxlen = max(1, int(prom_dur / block_sec))
PromMaxLen(c) == Max(1, c.prominent.duration \div c.block_sec)

---------------------------------------------------------------------------
(* Telemetry *)


\* mutant of LatestSumLevel: an iteration without a flush forgets the sum level
LatestSumLevelForget(prev, tel) == IF tel = {} THEN NoneVal ELSE CHOOSE v \in tel : TRUE

\* latest_payload["sum_level"] after the telemetry part of an iteration:
\* latest_payload.update(payload_avg) on a flush, untouched otherwise
LatestSumLevel(prev, tel) == IF tel = {} THEN prev ELSE CHOOSE v \in tel : TRUE

\* Python's round(a / b) for positive a, b: to the nearest integer, ties to even
RoundHalfEven(a, b) ==
    LET q == a \div b
        r == a % b
    IN IF 2 * r < b THEN q
       ELSE IF 2 * r > b THEN q + 1
       ELSE IF q % 2 = 0 THEN q ELSE q + 1

\* maxlen = int(round(float(args.averaging_period) / float(args.spectrum_interval)))
RollingMaxLen(c) == RoundHalfEven(c.averagingPeriod, c.block_sec)

\* the Python slice q[-n:]: the last n elements, and the whole list for n = 0
LastSlice(q, n) ==
    IF n = 0 \/ n >= Len(q) THEN q ELSE SubSeq(q, Len(q) - n + 1, Len(q))

\* spectrum_rolling_buffer.append(avg); if len > maxlen: buffer = buffer[-maxlen:]
RollingAppend(buf, avg, n) ==
    LET b2 == Append(buf, avg)
    IN IF Len(b2) > n THEN LastSlice(b2, n) ELSE b2

\* the flush goes ahead when (now_mono - last_spec_pub) >= spectrum_interval.
\* A block takes one interval to arrive, so the monotonic clock reads the
\* interval up to jitter when the last block flushed and the comparison can go
\* either way; after a block without a flush two intervals have passed.
FlushMayBeSkipped(now, last, c) == now - last <= c.block_sec


\* mutant of TelemetryStep: a failed publish leaves the flush unfinished
TelemetryStepAbort(tm, k, now, flush, ok, c) ==
    LET la == [tm EXCEPT !.latest_payload.la = k,
                         !.spectrum_publish_buffer = Append(@, k)]
    IN IF ~flush THEN la
       ELSE IF ~ok
       THEN [la EXCEPT !.spectrum_rolling_buffer = RollingAppend(@, k, RollingMaxLen(c)),
                       !.latest_payload.avg = k,
                       !.latest_payload.ts = NowUtc(now)]
       ELSE [la EXCEPT !.spectrum_rolling_buffer = RollingAppend(@, k, RollingMaxLen(c)),
                       !.latest_payload.avg = k,
                       !.latest_payload.ts = NowUtc(now),
                       !.spectrum_publish_buffer = <<>>,
                       !.last_spec_pub = now]

\* lines 1115-1184 on the telemetry bundle
\*   tm = [latest_payload, spectrum_publish_buffer, spectrum_rolling_buffer,
\*         last_spec_pub]
\* latest_payload.update(la80/la160) and the append to the publish buffer in
\* every block; on a flush the interval average (named by the block k) enters
\* the rolling buffer, latest_payload is updated, the two publish calls are
\* made inside try/except: pass (ok = they succeeded), the publish buffer is
\* cleared and last_spec_pub advanced.
TelemetryStep(tm, k, now, flush, ok, c) ==
    LET la == [tm EXCEPT !.latest_payload.la = k,
                         !.spectrum_publish_buffer = Append(@, k)]
    IN IF ~flush THEN la
       ELSE [la EXCEPT !.spectrum_rolling_buffer = RollingAppend(@, k, RollingMaxLen(c)),
                       !.latest_payload.avg = k,
                       !.latest_payload.ts = NowUtc(now),
                       !.spectrum_publish_buffer = <<>>,
                       !.last_spec_pub = now]

---------------------------------------------------------------------------
(* Capture and filtering *)

\* the delay line of a filter at rest
FilterAtRest == 0

\* sosfilt(sos, x) is called without zi: the filter of every band starts the
\* block k from rest, and the final state of the call is not returned
FilterStart(k) == FilterAtRest

\* "x, _ = stream.read(block_samples)": the overflow flag is bound to _ and
\* never read, so nothing is logged for it
OverrunLogged(overflowed) == FALSE

\* the finally clause "try: stream.stop(); stream.close()  except: pass":
\* close() is reached only if stop() returns
Finally(st, stop_ok) == IF stop_ok THEN "closed" ELSE st

---------------------------------------------------------------------------
(* Trigger evaluation (the for-loop over the simple triggers)              *)
(* The running state st of the loop is                                     *)
(*   [results, states, log, it, crashed]                                   *)
(* results = trigger_results, states = trigger_states, log = trigger_log,  *)
(* it = the local is_triggered, crashed = an exception left the loop.      *)


\* mutant of SpecEnabled: the threshold is not looked at
SpecEnabledAnyAmp(trig) == Truthy(trig.freq)

\* a spec takes part in the evaluation: "if freq and amp > 0"
SpecEnabled(trig) == Truthy(trig.freq) /\ trig.amp > 0

\* active_trigger_count = sum(1 for t in triggers if t.get("freq") and t.get("amp", 0) > 0)
ActiveTriggerCount(trigs) == Cardinality({i \in 1..Len(trigs) : SpecEnabled(trigs[i])})


\* mutant of MeetsThreshold: strictly above the threshold
MeetsThresholdStrict(level, amp) == level > amp

\* is_triggered = LA[freq_val] >= amp   /   sum_level >= amp
MeetsThreshold(level, amp) == level >= amp

\* the "state tracking" block: open a runtime state on activation, log and
\* delete it on deactivation
TrackState(st, key, trig_now, level, now) ==
    IF trig_now
    THEN IF key \notin DOMAIN st.states
         THEN [st EXCEPT !.states =
                  MapPut(@, key, [start_time |-> now, start_amp |-> level])]
         ELSE st
    ELSE IF key \in DOMAIN st.states
         THEN [st EXCEPT
                  !.log = Append(@, [time |-> st.states[key].start_time,
                                     frequency |-> key,
                                     amplitude |-> st.states[key].start_amp,
                                     duration |-> LogDuration(st.states[key].start_time, now)]),
                  !.states = MapDel(@, key)]
         ELSE st

\* one pass of the loop body for the spec trig
EvalTrigger(trig, st, LA, sl, now) ==
    IF ~SpecEnabled(trig) THEN st
    ELSE IF trig.freq = "sum"
    THEN LET hit == sl # NoneVal /\ MeetsThreshold(sl, trig.amp)
             st1 == [st EXCEPT !.results = Append(@, hit),
                               !.it = [bound |-> TRUE, val |-> hit]]
         IN TrackState(st1, SumKey, hit, sl, now)
    ELSE IF ParseFloat(trig.freq) = {} THEN st          \* except: continue
    ELSE LET freq_val == CHOOSE v \in ParseFloat(trig.freq) : TRUE
         IN IF freq_val \in DOMAIN LA
            THEN LET hit == MeetsThreshold(LA[freq_val], trig.amp)
                     st1 == [st EXCEPT !.results = Append(@, hit),
                                       !.it = [bound |-> TRUE, val |-> hit]]
                 IN TrackState(st1, freq_val, hit, LA[freq_val], now)
            \* band absent: only a warning is printed, is_triggered keeps the value
            \* of the last spec evaluated.  Unbound: UnboundLocalError.  True:
            \* trigger_states[freq_val] = {.., LA[freq_val]} raises KeyError.
            ELSE IF ~st.it.bound \/ st.it.val
                 THEN [st EXCEPT !.crashed = TRUE]
                 ELSE st

RECURSIVE EvalTriggers(_, _, _, _, _, _)
EvalTriggers(trigs, i, st, LA, sl, now) ==
    IF i > Len(trigs) \/ st.crashed THEN st
    ELSE EvalTriggers(trigs, i + 1, EvalTrigger(trigs[i], st, LA, sl, now), LA, sl, now)

---------------------------------------------------------------------------
(* Prominent frequency trigger *)

\* prom_freq_vals; any float() failure empties the list
PromFreqVals(p) ==
    LET use1 == Truthy(p.freq1)
        use2 == Truthy(p.freq2) /\ p.freq2 # p.freq1
    IN IF (use1 /\ ParseFloat(p.freq1) = {}) \/ (use2 /\ ParseFloat(p.freq2) = {})
       THEN {}
       ELSE (IF use1 THEN ParseFloat(p.freq1) ELSE {})
            \cup (IF use2 THEN ParseFloat(p.freq2) ELSE {})


\* mutant of IsProminent: a tie for the maximum counts as prominent
IsProminentTie(vals, LA) ==
    \E pf \in vals :
        pf \in DOMAIN LA /\ \A f \in DOMAIN LA \ {pf} : LA[pf] >= LA[f]

\* is_prominent: some selected band is strictly the loudest
IsProminent(vals, LA) ==
    \E pf \in vals :
        pf \in DOMAIN LA /\ \A f \in DOMAIN LA \ {pf} : LA[pf] > LA[f]

\* (re)create main.prominent_buffer when missing or when maxlen differs, then append
PromBufferStep(buf, c, LA) ==
    LET n == PromMaxLen(c)
        base == IF ~buf.has \/ buf.maxlen # n THEN <<>> ELSE buf.items
    IN [has |-> TRUE, maxlen |-> n,
        items |-> DequeAppend(base, IsProminent(PromFreqVals(c.prominent), LA), n)]


\* mutant of PromActive: one prominent block in a full window is enough
PromActiveAny(buf) ==
    Len(buf.items) = buf.maxlen /\ \E i \in 1..Len(buf.items) : buf.items[i]

\* len(buffer) == maxlen and all(buffer)
PromActive(buf) ==
    Len(buf.items) = buf.maxlen /\ \A i \in 1..Len(buf.items) : buf.items[i]

---------------------------------------------------------------------------
(* Combination and required hold duration *)

AllOf(q) == \A i \in 1..Len(q) : q[i]

AnyOf(q) == \E i \in 1..Len(q) : q[i]


\* mutant of Combine: all() / any() without the guards (all([]) is True)
CombineVacuous(count, logic, results) ==
    IF logic = "AND" THEN AllOf(results) ELSE AnyOf(results)

\* trigger_event from active_trigger_count, logic and trigger_results
Combine(count, logic, results) ==
    IF count = 0 THEN FALSE
    ELSE IF logic = "AND" THEN (IF results # <<>> THEN AllOf(results) ELSE FALSE)
    ELSE (IF results # <<>> THEN AnyOf(results) ELSE FALSE)

\* trigger_durations: the durations of the specs with amp > 0 whose freq is "sum"
\* or has the form of a number
TriggerDurations(trigs) ==
    {trigs[i].duration : i \in {j \in 1..Len(trigs) :
        /\ trigs[j].amp > 0
        /\ \/ trigs[j].freq = "sum"
           \/ (Truthy(trigs[j].freq) /\ IsDigitForm(trigs[j].freq))}}

\* required_duration
RequiredDuration(trigs, logic) ==
    LET ds == TriggerDurations(trigs)
    IN IF ds = {} THEN HoldSec
       ELSE IF logic = "AND" THEN SetMax(ds)
       ELSE IF \E d \in ds : d > 0 THEN SetMin({d \in ds : d > 0}) ELSE HoldSec

---------------------------------------------------------------------------
(* Event recorder *)
(* The recorder works on the bundle                                        *)
(*   m = [S, trigger_log, post_buf_audio, post_buf_spec,                   *)
(*        files, written, published, publish_ok]                          *)


\* mutant of ResetAfterEnd: the event directory and the trig flag survive
ResetKeepsEvent(s) ==
    [s EXCEPT !.event_audio = <<>>, !.event_specs = <<>>, !.overall_dbA = <<>>,
              !.event_start_time = NoneVal, !.actual_duration = 0,
              !.recording_stopped = FALSE]

\* S.update({...}) at the end of end_event
ResetAfterEnd(s) ==
    [s EXCEPT !.trig = FALSE, !.cur_dir = NoneVal, !.event_audio = <<>>,
              !.event_specs = <<>>, !.overall_dbA = <<>>,
              !.event_start_time = NoneVal, !.actual_duration = 0,
              !.recording_stopped = FALSE]

\* what end_event writes into S["cur_dir"]: audio.flac, spectrum.csv,
\* trigger_log.csv and event_metadata.json
EventRecord(m, now, c) ==
    [event_id |-> m.S.cur_dir,
     stop_time |-> NowUtc(now),
     audio |-> m.S.event_audio,
     specs |-> m.S.event_specs,
     triggers |-> m.trigger_log,
     overall_dbA |-> m.S.overall_dbA,
     actual_duration |-> m.S.actual_duration,
     recorded_duration |-> Len(m.S.event_specs) * c.block_sec]

\* the MQTT payload of end_event
EventPayload(m, now, c) ==
    [event_id |-> m.S.cur_dir,
     stop |-> NowUtc(now),
     trigger_count |-> Len(m.trigger_log),
     actual_duration |-> m.S.actual_duration,
     recorded_duration |-> Len(m.S.event_specs) * c.block_sec]

\* end_event(current_fs); m.publish_ok tells whether client.publish succeeds
\* (it is called inside try/except: pass)
EndEvent(m, now, c) ==
    IF m.S.cur_dir = NoneVal THEN m
    ELSE [m EXCEPT
            !.files = MapPut(@, m.S.cur_dir, EventRecord(m, now, c)),
            !.written = Append(@, m.S.cur_dir),
            !.published = IF m.publish_ok THEN Append(@, EventPayload(m, now, c)) ELSE @,
            !.trigger_log = <<>>,
            !.S = ResetAfterEnd(@)]


\* mutant of AddHold: the hold is assigned instead of accumulated
AddHoldAssign(hold, b) == b

\* S["hold"] += block_sec
AddHold(hold, b) == hold + b

\* the pre-roll slice taken at the event start: buf_list[S["hold_start_idx"]:]
PreRollSlice(buf, idx) == IF idx # NoneVal THEN SliceFrom(buf, idx) ELSE buf


\* mutant of StartEvent: the audio starts with the whole pre-buffer and the
\* level sequence empty
StartEventAudioOnly(m, now, pre, spec, c) ==
    [m EXCEPT
        !.S = [@ EXCEPT
                 !.trig = TRUE,
                 !.post_left = PostSec,
                 !.cur_dir = NowUtc(now),
                 !.event_audio = pre,
                 !.event_specs = <<>>,
                 !.overall_dbA = <<>>,
                 !.event_start_time =
                     IF m.S.hold_start_time # NoneVal THEN m.S.hold_start_time ELSE now,
                 !.actual_duration = 0,
                 !.recording_stopped = FALSE,
                 !.hold = 0,
                 !.hold_start_idx = NoneVal,
                 !.hold_start_time = NoneVal],
        !.post_buf_audio = <<>>,
        !.post_buf_spec = <<>>]

\* mutant of StartEvent: the accumulated hold survives the event start
StartEventKeepHold(m, now, pre, spec, c) ==
    [m EXCEPT
        !.S = [@ EXCEPT
                 !.trig = TRUE,
                 !.post_left = PostSec,
                 !.cur_dir = NowUtc(now),
                 !.event_audio = PreRollSlice(pre, m.S.hold_start_idx),
                 !.event_specs = PreRollSlice(spec, m.S.hold_start_idx),
                 !.overall_dbA = <<>>,
                 !.event_start_time =
                     IF m.S.hold_start_time # NoneVal THEN m.S.hold_start_time ELSE now,
                 !.actual_duration = 0,
                 !.recording_stopped = FALSE,
                 !.hold_start_idx = NoneVal,
                 !.hold_start_time = NoneVal],
        !.post_buf_audio = <<>>,
        !.post_buf_spec = <<>>]

\* "if S['hold'] >= required_duration:" -- the event start
StartEvent(m, now, pre, spec, c) ==
    [m EXCEPT
        !.S = [@ EXCEPT
                 !.trig = TRUE,
                 !.post_left = PostSec,
                 !.cur_dir = NowUtc(now),
                 !.event_audio = PreRollSlice(pre, m.S.hold_start_idx),
                 !.event_specs = PreRollSlice(spec, m.S.hold_start_idx),
                 !.overall_dbA = <<>>,
                 !.event_start_time =
                     IF m.S.hold_start_time # NoneVal THEN m.S.hold_start_time ELSE now,
                 !.actual_duration = 0,
                 !.recording_stopped = FALSE,
                 !.hold = 0,
                 !.hold_start_idx = NoneVal,
                 !.hold_start_time = NoneVal],
        !.post_buf_audio = <<>>,
        !.post_buf_spec = <<>>]

\* the branch "if not S['trig']:" of the loop
IdleStep(m, te, req, now, pre, spec, c) ==
    IF te
    THEN LET s1 == IF m.S.hold = 0
                   THEN [m.S EXCEPT !.hold_start_idx = Len(pre),
                                    !.hold_start_time = now]
                   ELSE m.S
             s2 == [s1 EXCEPT !.hold = AddHold(@, c.block_sec)]
             m2 == [m EXCEPT !.S = s2]
         IN IF s2.hold >= req THEN StartEvent(m2, now, pre, spec, c) ELSE m2
    ELSE [m EXCEPT !.S = [@ EXCEPT !.hold = 0, !.hold_start_idx = NoneVal,
                                   !.hold_start_time = NoneVal]]

\* "if S['post_left'] <= 0:" -- post-roll complete
PostRollDone(m, now, c) ==
    LET m1 == [m EXCEPT
                 !.S = [@ EXCEPT
                          !.event_audio = @ \o m.post_buf_audio,
                          !.event_specs = @ \o m.post_buf_spec]]
    IN IF ~m1.S.recording_stopped
       THEN EndEvent(m1, now, c)
       ELSE [m1 EXCEPT !.S = [@ EXCEPT !.trig = FALSE, !.hold = 0]]


\* mutant of PostLeftAfter: a true block does not restore the timer
PostLeftNoRestore(post_left, te, b) == IF te THEN post_left ELSE post_left - b

\* the post-roll timer: counted down while the condition is false, restored
\* to args.post while it is true
PostLeftAfter(post_left, te, b) == IF te THEN PostSec ELSE post_left - b

\* mutant of EventStep: the aggregate level of a block is kept only while
\* the condition is true
EventStepSkipLevel(m, te, k, now, c) ==
    LET s1 == [m.S EXCEPT
                 !.actual_duration =
                     IF m.S.event_start_time # NoneVal
                     THEN now - m.S.event_start_time ELSE 0,
                 !.event_audio = Append(@, k),
                 !.event_specs = Append(@, k),
                 !.overall_dbA = IF te THEN Append(@, k) ELSE @]
        s2 == [s1 EXCEPT !.post_left = PostLeftAfter(@, te, c.block_sec)]
        m2 == [m EXCEPT !.S = s2]
    IN IF ~te /\ s2.post_left <= 0 THEN PostRollDone(m2, now, c) ELSE m2

\* the else-branch (an event is in progress)
EventStep(m, te, k, now, c) ==
    LET s1 == [m.S EXCEPT
                 !.actual_duration =
                     IF m.S.event_start_time # NoneVal
                     THEN now - m.S.event_start_time ELSE 0,
                 !.event_audio = Append(@, k),
                 !.event_specs = Append(@, k),
                 !.overall_dbA = Append(@, k)]
        s2 == [s1 EXCEPT !.post_left = PostLeftAfter(@, te, c.block_sec)]
        m2 == [m EXCEPT !.S = s2]
    IN IF ~te /\ s2.post_left <= 0 THEN PostRollDone(m2, now, c) ELSE m2

\* lines 1344-1401: the recorder part of one loop iteration
RecorderStep(m, te, req, k, now, pre, spec, c) ==
    IF ~m.S.trig
    THEN IdleStep(m, te, req, now, pre, spec, c)
    ELSE EventStep(m, te, k, now, c)

---------------------------------------------------------------------------
(* The processing loop *)

\* one iteration of "while True".  Its inputs:
\*   cap      what stream.read delivers: "ok", "overflow" (a block with the
\*            overflow flag set) or "error" (the call raises)
\*   LA       the A levels of the block read
\*   tel      the sum level of a telemetry flush in this iteration (empty: none)
\*   pub      whether the publish calls succeed: [telemetry, event]
\*   stop_ok  whether stream.stop() returns when the finally clause runs
Iteration(LA, tel, pub, cap, stop_ok) ==
    LET c    == cfg
        k    == t + 1
        now  == k * c.block_sec
        pre  == DequeAppend(pre_buf, k, PreMaxLen(c))
        spec == DequeAppend(spec_buf, k, PreMaxLen(c))
        pa   == DequeAppend(post_buf_audio, k, PostMaxLen(c))
        ps   == DequeAppend(post_buf_spec, k, PostMaxLen(c))
        sl   == LatestSumLevel(sum_level, tel)
        tm0  == [latest_payload |-> latest_payload,
                 spectrum_publish_buffer |-> spectrum_publish_buffer,
                 spectrum_rolling_buffer |-> spectrum_rolling_buffer,
                 last_spec_pub |-> last_spec_pub]
        tm1  == TelemetryStep(tm0, k, now, tel # {}, pub.telemetry, c)
        st0  == [results |-> <<>>, states |-> trigger_states, log |-> trigger_log,
                 it |-> is_triggered, crashed |-> FALSE]
        hasProm == PromFreqVals(c.prominent) # {}
        req  == RequiredDuration(c.triggers, c.logic)
    IN /\ running
       /\ cfg' = cfg
       /\ UNCHANGED <<sse_seen, call, ret, record_spectrum, switch_state>>
       /\ IF cap = "error"
          THEN \* stream.read raises: the exception leaves the loop through finally
               /\ running' = FALSE
               /\ stream' = Finally(stream, stop_ok)
               /\ UNCHANGED <<t, pre_buf, spec_buf, post_buf_audio, post_buf_spec, S,
                              trigger_log, trigger_states, is_triggered,
                              prominent_buffer, sum_level, latest_payload,
                              spectrum_publish_buffer, spectrum_rolling_buffer,
                              last_spec_pub, files, written, published, obs, hist>>
          ELSE
               /\ tel = {} => FlushMayBeSkipped(now, last_spec_pub, c)
               /\ t' = k
               /\ pre_buf' = pre
               /\ spec_buf' = spec
               /\ sum_level' = sl
               /\ latest_payload' = tm1.latest_payload
               /\ spectrum_publish_buffer' = tm1.spectrum_publish_buffer
               /\ spectrum_rolling_buffer' = tm1.spectrum_rolling_buffer
               /\ last_spec_pub' = tm1.last_spec_pub
               /\ \E st1 \in {EvalTriggers(c.triggers, 1, st0, LA, sl, now)} :
                    /\ trigger_states' = st1.states
                    /\ is_triggered' = st1.it
                    /\ IF st1.crashed
                       THEN /\ running' = FALSE
                            /\ stream' = Finally(stream, stop_ok)
                            /\ post_buf_audio' = pa
                            /\ post_buf_spec' = ps
                            /\ trigger_log' = st1.log
                            /\ obs' = [obs EXCEPT !.k = k, !.LA = LA, !.tel = tel, !.pub = pub,
                                                  !.overflowed = (cap = "overflow"),
                                                  !.overrun_logged = OverrunLogged(cap = "overflow"),
                                                  !.zi = FilterStart(k)]
                            /\ UNCHANGED <<S, prominent_buffer, files, written, published,
                                           hist>>
                       ELSE LET pbuf == IF hasProm
                                        THEN PromBufferStep(prominent_buffer, c, LA)
                                        ELSE prominent_buffer
                                results == IF hasProm
                                           THEN Append(st1.results, PromActive(pbuf))
                                           ELSE st1.results
                                te == Combine(ActiveTriggerCount(c.triggers), c.logic, results)
                                m0 == [S |-> S, trigger_log |-> st1.log,
                                       post_buf_audio |-> pa, post_buf_spec |-> ps,
                                       files |-> files, written |-> written,
                                       published |-> published, publish_ok |-> pub.event]
                            IN \E m1 \in {RecorderStep(m0, te, req, k, now, pre, spec, c)} :
                                 /\ running' = TRUE
                                 /\ stream' = stream
                                 /\ prominent_buffer' = pbuf
                                 /\ S' = m1.S
                                 /\ trigger_log' = m1.trigger_log
                                 /\ post_buf_audio' = m1.post_buf_audio
                                 /\ post_buf_spec' = m1.post_buf_spec
                                 /\ files' = m1.files
                                 /\ written' = m1.written
                                 /\ published' = m1.published
                                 /\ obs' = [k |-> k, LA |-> LA, tel |-> tel, pub |-> pub,
                                            overflowed |-> (cap = "overflow"),
                                            overrun_logged |-> OverrunLogged(cap = "overflow"),
                                            zi |-> FilterStart(k),
                                            trigger_results |-> results,
                                            trigger_event |-> te, required_duration |-> req]
                                 /\ hist' = [trueRun  |-> IF S.trig THEN 0
                                                          ELSE IF te THEN hist.trueRun + 1 ELSE 0,
                                             falseRun |-> IF ~S.trig THEN 0
                                                          ELSE IF te THEN 0
                                                          ELSE hist.falseRun + 1,
                                             restored |-> IF ~S.trig THEN FALSE
                                                          ELSE hist.restored
                                                               \/ (te /\ hist.falseRun > 0),
                                             promRun  |-> IF hasProm /\ pbuf.items[Len(pbuf.items)]
                                                          THEN hist.promRun + 1 ELSE 0,
                                             stale    |-> IF S.trig
                                                          THEN IF m1.written # written THEN 0
                                                               ELSE hist.stale
                                                          ELSE IF ~te THEN Len(st1.log)
                                                          ELSE IF S.hold = 0 THEN Len(trigger_log)
                                                          ELSE hist.stale]

\* both publish calls of an iteration succeed
AllPublished == [telemetry |-> TRUE, event |-> TRUE]

\* an iteration in which the capture delivers a block without overflow, the
\* broker accepts every message and the stream can be stopped
Block(LA, tel) == Iteration(LA, tel, AllPublished, "ok", TRUE)

\* the /sse handler thread sends json.dumps(latest_payload)
SseRead ==
    /\ sse_seen' = {[la |-> latest_payload.la, avg |-> latest_payload.avg,
                     ts |-> latest_payload.ts, sum_level |-> sum_level]}
    /\ UNCHANGED <<cfg, t, running, pre_buf, spec_buf, post_buf_audio, post_buf_spec,
                   S, trigger_log, trigger_states, is_triggered, prominent_buffer,
                   sum_level, latest_payload, spectrum_publish_buffer,
                   spectrum_rolling_buffer, last_spec_pub, stream, call, ret,
                   record_spectrum, switch_state, files, written, published,
                   obs, hist>>

---------------------------------------------------------------------------
(* Configurations and inputs *)

Trig(f, a, d) == [freq |-> f, amp |-> a, duration |-> d]

Prom(f1, f2, d) == [freq1 |-> f1, freq2 |-> f2, duration |-> d]

\* analyzer_config without a "prominentTrigger" entry
NoProm == Prom("", "", 0)

Config(b, pre, rec, logic, trigs, prom, bands) ==
    [block_sec |-> b, preBuffer |-> pre, recLength |-> rec, logic |-> logic,
     triggers |-> trigs, prominent |-> prom, bands |-> bands,
     averagingPeriod |-> b]

\* the configuration c with the averaging period ap
WithAveraging(c, ap) == [c EXCEPT !.averagingPeriod = ap]

\* A levels a band can have in a block, and sum levels of a telemetry flush
Levels == {50, 70}

LevelMaps(c) == [c.bands -> Levels]

\* the telemetry of one iteration: no flush, or a flush with its sum level
Telemetry == {{}} \cup {{v} : v \in Levels}

\* the band set of a "1octave" configuration limited to 63..125 Hz
TwoBands == {63, 125}

GeneralTriggers ==
    { <<>>,
      <<Trig("63", 0, 20), Trig("", 60, 20)>>,
      <<Trig("63", 60, 0)>>,
      <<Trig("63", 70, 40)>>,
      <<Trig("63", 60, 20), Trig("125", 60, 40)>>,
      <<Trig("sum", 60, 20)>>,
      <<Trig("125", 60, 20), Trig("999", 60, 0)>> }

GeneralConfigs ==
    { Config(b, pre, 30, logic, trigs, prom, TwoBands) :
        b \in {15, 20}, pre \in {20, 45}, logic \in {"AND", "OR"},
        trigs \in GeneralTriggers, prom \in {NoProm} }

LoopInit(configs) ==
    /\ cfg \in configs
    /\ t = 0
    /\ running = TRUE
    /\ pre_buf = <<>>
    /\ spec_buf = <<>>
    /\ post_buf_audio = <<>>
    /\ post_buf_spec = <<>>
    /\ S = [trig |-> FALSE, hold |-> 0, post_left |-> 0, cur_dir |-> NoneVal,
            event_audio |-> <<>>, event_specs |-> <<>>, overall_dbA |-> <<>>,
            event_start_time |-> NoneVal, actual_duration |-> 0,
            recording_stopped |-> FALSE, hold_start_idx |-> NoneVal,
            hold_start_time |-> NoneVal]
    /\ trigger_log = <<>>
    /\ trigger_states = EmptyMap
    /\ is_triggered = [bound |-> FALSE, val |-> FALSE]
    /\ prominent_buffer = [has |-> FALSE, maxlen |-> 0, items |-> <<>>]
    /\ sum_level = NoneVal
    /\ latest_payload = [la |-> NoneVal, avg |-> NoneVal, ts |-> NowUtc(0)]
    /\ spectrum_publish_buffer = <<>>
    /\ spectrum_rolling_buffer = <<>>
    /\ last_spec_pub = 0
    /\ stream = "active"
    /\ sse_seen = {}
    /\ record_spectrum = FALSE
    /\ switch_state = "OFF"
    /\ files = EmptyMap
    /\ written = <<>>
    /\ published = <<>>
    /\ obs = [k |-> 0, LA |-> EmptyMap, tel |-> {}, pub |-> AllPublished,
              overflowed |-> FALSE, overrun_logged |-> FALSE, zi |-> FilterAtRest,
              trigger_results |-> <<>>,
              trigger_event |-> FALSE, required_duration |-> HoldSec]
    /\ hist = [trueRun |-> 0, falseRun |-> 0, restored |-> FALSE, promRun |-> 0,
               stale |-> 0]

\* the start of main() with a configuration of the family configs; no call of
\* a pure function is looked at
InitWith(configs) == LoopInit(configs) /\ call = NoneVal /\ ret = NoneVal

Init == InitWith(GeneralConfigs)

Next == t < MaxBlocks /\ \E LA \in LevelMaps(cfg), tel \in Telemetry : Block(LA, tel)

Spec == Init /\ [][Next]_vars

---------------------------------------------------------------------------
(* Properties *)

\* ceil(post / block_sec): the number of false blocks that use up args.post
PostBlocks(c) == (PostSec + c.block_sec - 1) \div c.block_sec

\* the iteration from the unprimed to the primed state ran to its end
Processed == t' = t + 1 /\ running'

\* the state is the one right after the block in which an event started
JustStarted == S.trig /\ hist.trueRun > 0

\* the bundle end_event works on, taken from the current state
Bundle ==
    [S |-> S, trigger_log |-> trigger_log, post_buf_audio |-> post_buf_audio,
     post_buf_spec |-> post_buf_spec, files |-> files, written |-> written,
     published |-> published, publish_ok |-> TRUE]

\* C1: while no event is in progress the hold is n*b after n consecutive true
\* blocks (it grows by b in a true block and is 0 after a false one), and an
\* event starts in exactly the first block in which n*b reaches the required
\* duration d.
C1_HoldStep ==
    (Processed /\ ~S.trig) =>
        LET b == cfg.block_sec
            d == obs'.required_duration
            n == hist'.trueRun
        IN /\ ~obs'.trigger_event => (S'.hold = 0 /\ ~S'.trig /\ n = 0)
           /\ obs'.trigger_event =>
                /\ n = hist.trueRun + 1
                /\ S.hold = (n - 1) * b
                /\ (n = 1 \/ (n - 1) * b < d)
                /\ IF n * b >= d
                   THEN S'.trig
                   ELSE ~S'.trig /\ S'.hold = S.hold + b /\ S'.hold = n * b

C1_HoldAccumulation == [][C1_HoldStep]_vars

\* C1 witness: an event has just started after two consecutive true blocks
\* that followed at least one earlier block
C1_Witness == JustStarted /\ hist.trueRun = 2 /\ t > 2

\* C2: when an event starts, its audio and level sequences are the blocks from
\* the block at which the hold began through the current block.
C2_PreRollFromHoldStart ==
    JustStarted =>
        LET n == hist.trueRun
            want == [i \in 1..n |-> t - n + i]
        IN S.event_audio = want /\ S.event_specs = want

\* C3: an event in progress is finalized in exactly the block that makes the
\* condition false for ceil(post / block_sec) consecutive blocks; a true block
\* restores the post-roll timer and never finalizes; no block finalizes while
\* no event is in progress.
C3_PostRollStep ==
    Processed =>
        LET N == PostBlocks(cfg)
            finalized == Len(written') = Len(written) + 1
        IN IF S.trig
           THEN /\ finalized <=> (~obs'.trigger_event /\ hist'.falseRun = N)
                /\ finalized => (~S'.trig /\ written'[Len(written')] = S.cur_dir)
                /\ ~finalized => (S'.trig /\ written' = written)
                /\ obs'.trigger_event => S'.post_left = PostSec
                /\ hist'.falseRun <= N
           ELSE written' = written

C3_PostRoll == [][C3_PostRollStep]_vars

\* C3 witness: an event was finalized after a true block had interrupted an
\* earlier run of false blocks
C3_Witness ==
    /\ Len(written) = 1
    /\ hist.falseRun = PostBlocks(cfg)
    /\ hist.restored
    /\ cfg.block_sec = 20

\* C4: no event id is written or published twice, and end_event called while no
\* event is in progress changes nothing.
C4_FinalizeOnce ==
    /\ \A i, j \in 1..Len(written) : i # j => written[i] # written[j]
    /\ \A i, j \in 1..Len(published) :
           i # j => published[i].event_id # published[j].event_id
    /\ Len(published) = Len(written)
    /\ S.cur_dir = NoneVal => EndEvent(Bundle, t * cfg.block_sec, cfg) = Bundle

\* C4 witness: two events have been finalized and the recorder is idle
C4_Witness == Len(written) = 2 /\ S.cur_dir = NoneVal

\* C6: an event whose accumulated duration has reached the configured maximum
\* recording length has been flushed.
C6_MaxLengthFlush ==
    (S.trig /\ S.actual_duration >= cfg.recLength) => S.cur_dir \in DOMAIN files

\* no simple spec is enabled and no prominent trigger is configured
NoSpecEnabled(c) ==
    /\ \A i \in 1..Len(c.triggers) : c.triggers[i].freq = "" \/ c.triggers[i].amp <= 0
    /\ c.prominent.freq1 = "" /\ c.prominent.freq2 = ""

\* C8: with no enabled spec the combined condition is false in every block, the
\* hold stays 0 and no event starts.
C8_NoSpecNoEvent ==
    NoSpecEnabled(cfg) =>
        /\ ~obs.trigger_event
        /\ S.hold = 0
        /\ ~S.trig
        /\ written = <<>>

\* C8 witness: blocks with a high level were processed under AND with no
\* enabled spec
C8_Witness ==
    /\ NoSpecEnabled(cfg) /\ cfg.logic = "AND" /\ t >= 2
    /\ \A f \in DOMAIN obs.LA : obs.LA[f] = 70
    /\ Len(cfg.triggers) > 0

\* the enabled simple specs
EnabledSpecs(c) ==
    {i \in 1..Len(c.triggers) : c.triggers[i].freq # "" /\ c.triggers[i].amp > 0}

\* the band a band spec targets
TargetBand(trig) == CHOOSE v \in ParseFloat(trig.freq) : TRUE

\* the enabled band specs whose target band is not in the band set
AbsentSpecs(c) ==
    {i \in EnabledSpecs(c) :
        /\ c.triggers[i].freq # "sum"
        /\ ParseFloat(c.triggers[i].freq) # {}
        /\ TargetBand(c.triggers[i]) \notin c.bands}

\* the level of spec i (on a band of the band set, or "sum") meets its threshold
\* for the band levels LA and the sum level sl
SpecActive(c, i, LA, sl) ==
    IF c.triggers[i].freq = "sum"
    THEN sl # NoneVal /\ sl >= c.triggers[i].amp
    ELSE LA[TargetBand(c.triggers[i])] >= c.triggers[i].amp

\* C12: under AND a band spec whose band is not in the band set is left out of
\* the combination: in a block in which every other enabled spec is ACTIVE the
\* combined condition is true and, while idle, the hold accumulates (or the
\* event starts).
C12_AbsentBandExcludedStep ==
    LET absent == AbsentSpecs(cfg)
        others == EnabledSpecs(cfg) \ absent
    IN (/\ t' = t + 1
        /\ cfg.logic = "AND"
        /\ absent # {} /\ others # {}
        /\ \A i \in others : SpecActive(cfg, i, obs'.LA, sum_level'))
       => /\ running'
          /\ obs'.trigger_event
          /\ ~S.trig => (S'.trig \/ S'.hold = S.hold + cfg.block_sec)

C12_AbsentBandExcluded == [][C12_AbsentBandExcludedStep]_vars

\* C13: evaluating a band spec whose band is not in the band set only warns:
\* the loop goes on to the next block, and no runtime state and no trigger-log
\* entry exists for that band.
C13_AbsentBandOnlyWarnsStep ==
    (t' = t + 1 /\ AbsentSpecs(cfg) # {}) =>
        /\ running'
        /\ \A i \in AbsentSpecs(cfg) :
             LET v == TargetBand(cfg.triggers[i])
             IN /\ v \notin DOMAIN trigger_states'
                /\ \A j \in 1..Len(trigger_log') : trigger_log'[j].frequency # v

C13_AbsentBandOnlyWarns == [][C13_AbsentBandOnlyWarnsStep]_vars

\* C21: while an event is in progress and in its written record the audio
\* sequence and the level sequence have the same length and entry i of each is
\* the same captured block.
C21_AudioLevelsAligned ==
    /\ S.trig => S.event_audio = S.event_specs
    /\ \A e \in DOMAIN files : files[e].audio = files[e].specs

\* C21 witness: a written record holds pre-roll, live and post-roll blocks
C21_Witness ==
    /\ Len(written) = 1
    /\ LET r == files[written[1]]
       IN /\ Len(r.audio) > PostMaxLen(cfg) + 1
          /\ r.audio[1] * cfg.block_sec <= r.event_id
          /\ r.audio = r.specs

---------------------------------------------------------------------------
(* Two enabled band triggers on bands of the band set *)

TwoBandConfigs ==
    { Config(15, 20, 30, logic,
             <<Trig("63", a1, d1), Trig("125", 60, d2)>>, NoProm, TwoBands) :
        logic \in {"AND", "OR"}, a1 \in {60, 70},
        d1 \in {0, 40}, d2 \in {0, 20} }

SpecTwoBand == InitWith(TwoBandConfigs) /\ [][Next]_vars

\* the smaller positive min-duration of the two specs (0 when neither is positive)
MinPositiveDuration(c) ==
    LET d1 == c.triggers[1].duration
        d2 == c.triggers[2].duration
    IN IF d1 > 0 /\ d2 > 0 THEN (IF d1 <= d2 THEN d1 ELSE d2)
       ELSE IF d1 > 0 THEN d1 ELSE d2

\* C9: with two enabled band triggers the combined condition of a block is
\* "both levels meet their thresholds" under AND and "at least one does" under
\* OR; while idle the hold accumulates in the blocks where it is true and is
\* reset to 0 where it is false; under OR the event starts in the block in
\* which the hold reaches the smaller positive min-duration.
C9_TwoBandStep ==
    Processed =>
        LET b == cfg.block_sec
            meets1 == obs'.LA[63] >= cfg.triggers[1].amp
            meets2 == obs'.LA[125] >= cfg.triggers[2].amp
            cond == IF cfg.logic = "AND" THEN meets1 /\ meets2 ELSE meets1 \/ meets2
            dmin == MinPositiveDuration(cfg)
        IN /\ obs'.trigger_event <=> cond
           /\ ~S.trig =>
                /\ ~cond => (S'.hold = 0 /\ ~S'.trig)
                /\ cond => (S'.trig \/ S'.hold = S.hold + b)
                /\ (cfg.logic = "OR" /\ dmin > 0 /\ cond) =>
                       (S'.trig <=> S.hold + b >= dmin)

C9_TwoBand == [][C9_TwoBandStep]_vars

\* C9 witness: under OR with two different positive min-durations an event has
\* just started on the second of two true blocks in which only one band met
\* its threshold
C9_Witness ==
    /\ JustStarted /\ hist.trueRun = 2
    /\ cfg.logic = "OR"
    /\ cfg.triggers[1].duration = 40 /\ cfg.triggers[2].duration = 20
    /\ cfg.block_sec = 15
    /\ obs.LA[63] < cfg.triggers[1].amp
    /\ obs.LA[125] >= cfg.triggers[2].amp

---------------------------------------------------------------------------
(* Configurations with a prominent frequency trigger *)

PromConfigs ==
    { Config(15, 20, 30, logic, trigs, Prom(f1, f2, d), TwoBands) :
        logic \in {"AND", "OR"}, f1 \in {"63", "999"},
        trigs \in {<<>>, <<Trig("125", 60, 20)>>},
        f2 \in {"", "125"}, d \in {0, 30} }

SpecProm == InitWith(PromConfigs) /\ [][Next]_vars

\* some simple spec is enabled
SimpleEnabled(c) ==
    \E i \in 1..Len(c.triggers) : c.triggers[i].freq # "" /\ c.triggers[i].amp > 0

\* C10: the prominent trigger counts as an enabled spec: alone, it makes the
\* combined condition true in every block in which its window is full and all
\* true; under AND with simple specs the condition is true only if it is ACTIVE.
C10_ProminentCounts ==
    (t > 0 /\ running /\ PromFreqVals(cfg.prominent) # {}) =>
        /\ (~SimpleEnabled(cfg) /\ PromActive(prominent_buffer)) => obs.trigger_event
        /\ (SimpleEnabled(cfg) /\ cfg.logic = "AND" /\ obs.trigger_event)
               => PromActive(prominent_buffer)

\* some candidate band of the prominent trigger is selected
PromConfigured(c) == c.prominent.freq1 # "" \/ c.prominent.freq2 # ""

\* the min-durations of the enabled specs, simple and prominent
EnabledDurations(c) ==
    {c.triggers[i].duration : i \in {j \in 1..Len(c.triggers) :
        c.triggers[j].freq # "" /\ c.triggers[j].amp > 0}}
    \cup (IF PromConfigured(c) THEN {c.prominent.duration} ELSE {})

\* C11: the required hold duration of a block is, under AND, the largest
\* min-duration of the enabled specs (simple and prominent) and, under OR, the
\* smallest strictly positive one, or the 2 s hold floor when none is positive.
C11_RequiredHold ==
    (t > 0 /\ running /\ EnabledDurations(cfg) # {}) =>
        LET ds == EnabledDurations(cfg)
        IN obs.required_duration =
             IF cfg.logic = "AND" THEN SetMax(ds)
             ELSE IF \E d \in ds : d > 0 THEN SetMin({d \in ds : d > 0})
             ELSE HoldSec

\* the candidate bands of the prominent trigger
PromCandidates(c) ==
    (IF c.prominent.freq1 # "" THEN ParseFloat(c.prominent.freq1) ELSE {})
    \cup (IF c.prominent.freq2 # "" THEN ParseFloat(c.prominent.freq2) ELSE {})

\* C14: a prominent trigger none of whose candidate bands is in the band set is
\* left out of the evaluation: under AND, in a block in which every enabled
\* simple spec is ACTIVE the combined condition is true.
C14_AbsentProminentExcluded ==
    (/\ t > 0 /\ running
     /\ cfg.logic = "AND"
     /\ PromConfigured(cfg) /\ PromCandidates(cfg) \cap cfg.bands = {}
     /\ EnabledSpecs(cfg) # {}
     /\ \A i \in EnabledSpecs(cfg) : SpecActive(cfg, i, obs.LA, sum_level))
    => obs.trigger_event

\* the result the prominent trigger appended to trigger_results in the last block
ProminentResult == obs.trigger_results[Len(obs.trigger_results)]

\* the window size of the prominent trigger in blocks
WindowBlocks(c) ==
    IF c.prominent.duration \div c.block_sec >= 1
    THEN c.prominent.duration \div c.block_sec ELSE 1

\* C17: the prominent trigger is ACTIVE in a block exactly when the last W
\* blocks, W the window size, were all prominent (so at least W blocks were
\* recorded, and after a non-prominent block W further consecutive prominent
\* blocks are needed).
C17_ProminentWindow ==
    (t > 0 /\ running /\ PromConfigured(cfg)) =>
        (ProminentResult <=> hist.promRun >= WindowBlocks(cfg))

\* C17 witness: with a window of two blocks the trigger is ACTIVE again after
\* two prominent blocks that followed a non-prominent one
C17_Witness ==
    /\ WindowBlocks(cfg) = 2 /\ t = 5
    /\ hist.promRun = 2
    /\ ProminentResult

\* the value recorded for the last block in the window of the prominent trigger
RecordedProminent == prominent_buffer.items[Len(prominent_buffer.items)]

\* C18: a block is recorded as prominent exactly when some candidate band is in
\* the band set and its A level is strictly greater than the level of every
\* other band; a tie for the maximum is recorded as not prominent.
C18_StrictlyLoudest ==
    (t > 0 /\ running /\ PromConfigured(cfg)) =>
        (RecordedProminent <=>
            \E pf \in PromCandidates(cfg) \cap cfg.bands :
                \A f \in cfg.bands \ {pf} : obs.LA[pf] > obs.LA[f])

\* C18 witness: both candidates tie for the maximum and the block is recorded
\* as not prominent, right after a block recorded as prominent
C18_Witness ==
    /\ t > 1
    /\ cfg.prominent.freq1 = "63" /\ cfg.prominent.freq2 = "125"
    /\ obs.LA[63] = 70 /\ obs.LA[125] = 70
    /\ prominent_buffer.items = <<TRUE, FALSE>>

---------------------------------------------------------------------------
(* Configurations with disabled simple specs *)

DisabledConfigs ==
    { Config(15, 20, 30, logic, trigs, NoProm, TwoBands) :
        logic \in {"AND", "OR"},
        trigs \in { <<Trig("63", 0, 40), Trig("125", 60, 20), Trig("", 60, 40)>>,
                    <<Trig("125", -5, 40), Trig("125", 70, 0)>>,
                    <<Trig("sum", 0, 40), Trig("63", 60, 20)>> } }

SpecDisabled == InitWith(DisabledConfigs) /\ [][Next]_vars

\* the key under which the runtime state and the log entries of a spec are kept
SpecKey(trig) == IF trig.freq = "sum" THEN SumKey ELSE TargetBand(trig)

\* C15: a simple spec with threshold <= 0 or without a target frequency takes no
\* part in a block: the results, the combined condition and the required hold
\* are those of the remaining specs alone (under AND the condition is true when
\* they are all ACTIVE), and runtime states and trigger-log entries exist for
\* the remaining specs only.
C15_DisabledExcludedStep ==
    Processed =>
        LET kept == EnabledSpecs(cfg)
            act(i) == SpecActive(cfg, i, obs'.LA, sum_level')
            key(i) == SpecKey(cfg.triggers[i])
            ds == {cfg.triggers[i].duration : i \in kept}
            ended == {i \in kept : key(i) \in DOMAIN trigger_states /\ ~act(i)}
        IN /\ Len(obs'.trigger_results) = Cardinality(kept)
           /\ obs'.trigger_event <=>
                /\ kept # {}
                /\ IF cfg.logic = "AND" THEN \A i \in kept : act(i)
                                        ELSE \E i \in kept : act(i)
           /\ obs'.required_duration =
                IF ds = {} THEN HoldSec
                ELSE IF cfg.logic = "AND" THEN SetMax(ds)
                ELSE IF \E d \in ds : d > 0 THEN SetMin({d \in ds : d > 0})
                ELSE HoldSec
           /\ DOMAIN trigger_states' = {key(i) : i \in {j \in kept : act(j)}}
           /\ IF written' = written
              THEN Len(trigger_log') = Len(trigger_log) + Cardinality(ended)
              ELSE trigger_log' = <<>>

C15_DisabledExcluded == [][C15_DisabledExcludedStep]_vars

\* C15 witness: under AND an event has started on the one enabled spec of three
\* while the band of a spec with threshold 0 was below every threshold in use
C15_Witness ==
    /\ cfg.logic = "AND" /\ Len(cfg.triggers) = 3
    /\ JustStarted
    /\ obs.LA[63] = 50
    /\ obs.required_duration = 20

---------------------------------------------------------------------------
(* Configurations with two specs on the same band *)

SameBandConfigs ==
    { Config(15, 20, 30, logic, trigs, NoProm, TwoBands) :
        logic \in {"AND", "OR"},
        trigs \in { <<Trig("63", 60, 0), Trig("63", 80, 0)>>,
                    <<Trig("63", 60, 0), Trig("125", 70, 0)>>,
                    <<Trig("sum", 60, 0), Trig("63", 70, 0)>> } }

SpecSameBand == InitWith(SameBandConfigs) /\ [][Next]_vars

\* C16: for every enabled band or aggregate spec on its own: after a block its
\* runtime state exists exactly when its level met its threshold in that block
\* and holds the time and level of its activation; the log grows by exactly one
\* entry, with that start time and level, for each spec that went from ACTIVE
\* to INACTIVE in the block and by nothing else.
C16_PerSpecStateStep ==
    Processed =>
        LET now == t' * cfg.block_sec
            key(i) == SpecKey(cfg.triggers[i])
            lvl(i) == IF cfg.triggers[i].freq = "sum" THEN sum_level'
                      ELSE obs'.LA[key(i)]
            act(i) == SpecActive(cfg, i, obs'.LA, sum_level')
            was(i) == t > 0 /\ SpecActive(cfg, i, obs.LA, sum_level)
            ended == {i \in EnabledSpecs(cfg) : was(i) /\ ~act(i)}
            added == SubSeq(trigger_log', Len(trigger_log) + 1, Len(trigger_log'))
        IN /\ \A i \in EnabledSpecs(cfg) :
                /\ key(i) \in DOMAIN trigger_states' <=> act(i)
                /\ (act(i) /\ ~was(i)) =>
                      trigger_states'[key(i)] = [start_time |-> now, start_amp |-> lvl(i)]
                /\ (act(i) /\ was(i)) =>
                      trigger_states'[key(i)] = trigger_states[key(i)]
           /\ written' = written =>
                /\ Len(trigger_log') = Len(trigger_log) + Cardinality(ended)
                /\ \A i \in ended : \E j \in 1..Len(added) :
                      /\ added[j].frequency = key(i)
                      /\ added[j].time = trigger_states[key(i)].start_time
                      /\ added[j].amplitude = trigger_states[key(i)].start_amp

C16_PerSpecState == [][C16_PerSpecStateStep]_vars

---------------------------------------------------------------------------
(* Configurations with an aggregate trigger *)

SumConfigs ==
    { Config(15, 20, 30, logic, trigs, NoProm, TwoBands) :
        logic \in {"AND", "OR"},
        trigs \in { <<Trig("sum", 70, 0)>>,
                    <<Trig("sum", 60, 20)>>,
                    <<Trig("63", 60, 0), Trig("sum", 70, 0)>> } }

SpecSum == InitWith(SumConfigs) /\ [][Next]_vars

\* the position in trigger_results of the result of the enabled spec i
ResultIndex(c, i) == Cardinality({j \in EnabledSpecs(c) : j <= i})

\* the enabled aggregate specs
SumSpecs(c) == {i \in EnabledSpecs(c) : c.triggers[i].freq = "sum"}

\* C19: in every block an enabled aggregate spec is ACTIVE exactly when the sum
\* level of the most recent telemetry output (the one of this block if it
\* flushed, the previous one otherwise) is at or above its threshold, and it is
\* INACTIVE while no output has been produced.
C19_AggregateStep ==
    Processed =>
        LET latest == IF obs'.tel = {} THEN sum_level
                      ELSE CHOOSE v \in obs'.tel : TRUE
        IN /\ sum_level' = latest
           /\ \A i \in SumSpecs(cfg) :
                obs'.trigger_results[ResultIndex(cfg, i)] <=>
                    (latest # NoneVal /\ latest >= cfg.triggers[i].amp)

C19_Aggregate == [][C19_AggregateStep]_vars

\* C19 witness: a block without a flush found the aggregate spec ACTIVE on the
\* sum level of an earlier output that equals its threshold
C19_Witness ==
    /\ t >= 2 /\ obs.tel = {}
    /\ SumSpecs(cfg) = {2}
    /\ sum_level = cfg.triggers[2].amp
    /\ obs.trigger_results[2]

---------------------------------------------------------------------------
(* Configurations with pre-buffers shorter and longer than a block *)

RingConfigs ==
    { Config(b, pre, 30, "OR", <<Trig("63", 60, 0)>>, NoProm, TwoBands) :
        b \in {15, 20}, pre \in {10, 20, 45} }

SpecRing == InitWith(RingConfigs) /\ [][Next]_vars

\* max(1, floor(pre_buffer_seconds / block_duration))
RingCapacity(c) ==
    IF c.preBuffer \div c.block_sec >= 1 THEN c.preBuffer \div c.block_sec ELSE 1

\* C20: after any number of blocks the audio and the level pre-roll buffers
\* have the same length, at most the ring capacity, and hold the most recently
\* captured blocks in capture order (so a push on a full ring drops exactly the
\* oldest entry).
C20_PreRollRing ==
    LET n == IF t <= RingCapacity(cfg) THEN t ELSE RingCapacity(cfg)
    IN /\ Len(pre_buf) = Len(spec_buf)
       /\ Len(pre_buf) <= RingCapacity(cfg)
       /\ pre_buf = [i \in 1..n |-> t - n + i]
       /\ spec_buf = [i \in 1..n |-> t - n + i]

\* C20 witness: a ring of three blocks holds the last three of six blocks
C20_Witness ==
    /\ RingCapacity(cfg) = 3
    /\ t = 6
    /\ pre_buf = <<4, 5, 6>> /\ spec_buf = <<4, 5, 6>>

---------------------------------------------------------------------------
(* Configurations with averaging periods shorter and longer than the interval *)

RollingConfigs ==
    { WithAveraging(Config(20, 20, 30, "OR", <<Trig("63", 60, 0)>>, NoProm, TwoBands), ap) :
        ap \in {5, 10, 20, 30, 50, 60} }

SpecRolling == InitWith(RollingConfigs) /\ [][Next]_vars

\* the iteration from the unprimed to the primed state flushed the telemetry
Flushed == t' = t + 1 /\ obs'.tel # {}

\* the last n entries of q
Newest(q, n) == IF Len(q) <= n THEN q ELSE SubSeq(q, Len(q) - n + 1, Len(q))

\* C22: after every flush the rolling buffer holds the most recent published
\* averages in order, at most N = round(averaging_period / publish_interval) of
\* them: the flush appends its average and keeps the newest N.
C22_RollingBufferStep ==
    LET N == RoundHalfEven(cfg.averagingPeriod, cfg.block_sec)
    IN /\ Flushed =>
            /\ Len(spectrum_rolling_buffer') <= N
            /\ spectrum_rolling_buffer' = Newest(Append(spectrum_rolling_buffer, t'), N)
       /\ ~Flushed => spectrum_rolling_buffer' = spectrum_rolling_buffer

C22_RollingBuffer == [][C22_RollingBufferStep]_vars

---------------------------------------------------------------------------
(* The processing loop with a reader of the latest snapshot *)

ReaderConfigs ==
    { Config(b, 20, 30, "OR", <<Trig("63", 60, 0)>>, NoProm, TwoBands) : b \in {15, 20} }

ReaderNext == Next \/ SseRead

SpecReader == InitWith(ReaderConfigs) /\ [][ReaderNext]_vars

\* C23: a snapshot seen by a reader has all its fields written for the same
\* block: the block of its la80/la160 fields is the block of its spectrum
\* fields (once a flush has written them).
C23_SnapshotOfOneBlock ==
    \A snap \in sse_seen : snap.avg # NoneVal => snap.la = snap.avg

---------------------------------------------------------------------------
(* The processing loop with failing collaborators *)

FaultConfigs ==
    { Config(15, 20, 30, "OR", <<Trig("63", 60, 0)>>, NoProm, TwoBands) }

\* what stream.read can deliver when it returns: a block, with or without
\* the overflow flag
Captures == {"ok", "overflow"}

\* the outcomes of the two publish calls
PublishOutcomes == [telemetry : BOOLEAN, event : BOOLEAN]

\* stream.read returns a block
Delivered ==
    \E LA \in LevelMaps(cfg), tel \in Telemetry, pub \in PublishOutcomes,
       cap \in Captures :
         Iteration(LA, tel, pub, cap, TRUE)

\* stream.read raises
ReadFails ==
    \E stop_ok \in BOOLEAN :
         Iteration(EmptyMap, {}, AllPublished, "error", stop_ok)

FaultNext == t < MaxBlocks /\ (Delivered \/ ReadFails)

SpecFaults == InitWith(FaultConfigs) /\ [][FaultNext]_vars

\* C24: a failed publish does not abort the loop and leaves the block as a
\* successful one does: after a flush whose publish failed the publish buffer is
\* empty, the last-flush time is the time of the block and the average is in
\* the rolling buffer; after a finalization whose publish failed the record is
\* written, the recorder is reset and only the message is missing.
C24_PublishFailureStep ==
    t' = t + 1 =>
        /\ (obs'.tel # {} /\ ~obs'.pub.telemetry) =>
              /\ running'
              /\ spectrum_publish_buffer' = <<>>
              /\ last_spec_pub' = t' * cfg.block_sec
              /\ spectrum_rolling_buffer' # <<>>
              /\ spectrum_rolling_buffer'[Len(spectrum_rolling_buffer')] = t'
              /\ sum_level' \in obs'.tel
        /\ (Len(written') = Len(written) + 1 /\ ~obs'.pub.event) =>
              /\ running'
              /\ published' = published
              /\ S.cur_dir \in DOMAIN files'
              /\ ~S'.trig /\ S'.cur_dir = NoneVal
              /\ S'.event_audio = <<>> /\ S'.event_specs = <<>>
              /\ S'.actual_duration = 0
              /\ trigger_log' = <<>>

C24_PublishFailure == [][C24_PublishFailureStep]_vars

\* C24 witness: an event was finalized in a block in which both the telemetry
\* publish and the event publish failed, and the loop is still running
C24_Witness ==
    /\ running
    /\ Len(written) = 1 /\ published = <<>>
    /\ ~S.trig
    /\ obs.tel # {} /\ ~obs.pub.telemetry /\ ~obs.pub.event
    /\ spectrum_publish_buffer = <<>>

\* C25: when the capture read fails, the loop is left with an error, nothing of
\* the block is recorded (no level record, no ring buffer, hold, trigger or
\* event state changes), and the capture stream is closed when the loop has
\* been left.
C25_ReadFailureStep ==
    (running /\ ~running' /\ t' = t) =>
        /\ UNCHANGED <<pre_buf, spec_buf, post_buf_audio, post_buf_spec, S,
                       trigger_log, trigger_states, is_triggered, prominent_buffer,
                       sum_level, latest_payload, spectrum_publish_buffer,
                       spectrum_rolling_buffer, last_spec_pub, files, written,
                       published, obs>>
        /\ stream' = "closed"

C26_OverrunLogged == obs.overflowed => obs.overrun_logged

\* the delay line a filter is left with at the end of block k
FilterEnd(k) == IF k = 0 THEN FilterAtRest ELSE k

\* C27: the filter of a band starts block n+1 from the state it was left with
\* at the end of block n.
C27_FilterStatePersists == (t > 0 /\ obs.k = t) => obs.zi = FilterEnd(t - 1)

---------------------------------------------------------------------------
(* Band centers and band edges *)

\* Frequencies of this section are in tenths of a hertz (31.5 Hz is 315).

\* the table behind a band scheme; an unknown scheme takes the else branch
base_freqs(band_type) ==
    IF band_type = "1octave"
    THEN <<315, 630, 1250, 2500, 5000, 10000, 20000, 40000, 80000, 160000>>
    ELSE IF band_type = "2octave"
    THEN <<315, 447, 630, 891, 1250, 1770, 2500, 3540, 5000, 7070, 10000,
           14140, 20000, 28280, 40000, 56570, 80000, 113140, 160000>>
    ELSE <<315, 400, 500, 630, 800, 1000, 1250, 1600, 2000, 2500, 3150, 4000,
           5000, 6300, 8000, 10000, 12500, 16000, 20000, 25000, 31500, 40000,
           50000, 63000, 80000, 100000, 125000, 160000, 200000>>

\* a filter that drops a center sitting exactly on the lower bound
get_octave_bands_exclusive(band_type, min_freq, max_freq) ==
    LET Keep(f) == min_freq < f /\ f <= max_freq
    IN  SelectSeq(base_freqs(band_type), Keep)

get_octave_bands(band_type, min_freq, max_freq) ==
    LET Keep(f) == min_freq <= f /\ f <= max_freq
    IN  SelectSeq(base_freqs(band_type), Keep)

BandTypes == {"1octave", "2octave", "3octave", "4octave"}

MinFreqs == {0, 315, 316, 630, 10000, 200000}

MaxFreqs == {100, 315, 1250, 159999, 200000, 250000}

BandCalls ==
    [band_type : BandTypes, min_freq : MinFreqs, max_freq : MaxFreqs]

BandsInit ==
    /\ LoopInit(FaultConfigs)
    /\ call \in BandCalls
    /\ ret = {}

\* main() asks for the configured band set
CallGetOctaveBands ==
    /\ ret = {}
    /\ ret' = {get_octave_bands(call.band_type, call.min_freq, call.max_freq)}
    /\ UNCHANGED <<cfg, t, running, pre_buf, spec_buf, post_buf_audio,
                   post_buf_spec, S, trigger_log, trigger_states, is_triggered,
                   prominent_buffer, sum_level, latest_payload,
                   spectrum_publish_buffer, spectrum_rolling_buffer,
                   last_spec_pub, stream, sse_seen, call, record_spectrum,
                   switch_state, files, written, published, obs, hist>>

BandsNext == CallGetOctaveBands

SpecBands == BandsInit /\ [][BandsNext]_vars

StrictlyIncreasing(q) == \A i \in 1..(Len(q) - 1) : q[i] < q[i + 1]

\* the table the claim speaks of: an unknown scheme means 1/3 octave
SchemeTable(band_type) ==
    IF band_type \in {"1octave", "2octave"} THEN base_freqs(band_type)
    ELSE base_freqs("3octave")

CentersWithin(band_type, lo, hi) ==
    { f \in { SchemeTable(band_type)[i] : i \in DOMAIN SchemeTable(band_type) } :
        lo <= f /\ f <= hi }

Centers(band_type) ==
    { base_freqs(band_type)[i] : i \in DOMAIN base_freqs(band_type) }

\* C28: for every band scheme and every min/max bound, get_octave_bands
\* returns a strictly increasing list holding exactly the table centers f
\* with min <= f <= max.
C28_BandCenters ==
    \A r \in ret :
        /\ StrictlyIncreasing(r)
        /\ { r[i] : i \in DOMAIN r }
             = CentersWithin(call.band_type, call.min_freq, call.max_freq)

\* the octave scheme between 63 Hz and 125 Hz, both bounds being centers
C28_Witness ==
    /\ call = [band_type |-> "1octave", min_freq |-> 630, max_freq |-> 1250]
    /\ ret = {<<630, 1250>>}

\* K = 2 ** (1/6) in thousandths
K == 1122

\* the normalized frequency 1.0 (fs/2) in the unit of the edges, 1/10000
Nyquist == 10000

\* the edges band_sos hands to butter
band_sos(fc, fs) ==
    [lo |-> (((2 * fc * 1000) \div K) * 1000) \div fs,
     hi |-> (2 * fc * K) \div fs]

\* the rates a stream can run at: a requested rate, the 44100 Hz fallback,
\* a device default
SampleRates == {16000, 44100, 48000, 96000}

EdgeCalls == [fc : UNION { Centers(b) : b \in BandTypes }, fs : SampleRates]

EdgesInit ==
    /\ LoopInit(FaultConfigs)
    /\ call \in EdgeCalls
    /\ ret = {}

\* build_filters designs the filter of a band for the rate of the stream
CallBandSos ==
    /\ ret = {}
    /\ ret' = {band_sos(call.fc, call.fs)}
    /\ UNCHANGED <<cfg, t, running, pre_buf, spec_buf, post_buf_audio,
                   post_buf_spec, S, trigger_log, trigger_states, is_triggered,
                   prominent_buffer, sum_level, latest_payload,
                   spectrum_publish_buffer, spectrum_rolling_buffer,
                   last_spec_pub, stream, sse_seen, call, record_spectrum,
                   switch_state, files, written, published, obs, hist>>

EdgesNext == CallBandSos

SpecEdges == EdgesInit /\ [][EdgesNext]_vars

\* C29: for every band center and every rate the stream can run at, the
\* normalized edges handed to the filter design satisfy 0 < lo < hi < 1, the
\* upper edge being kept below Nyquist.
C29_EdgesBelowNyquist ==
    \A r \in ret : 0 < r.lo /\ r.lo < r.hi /\ r.hi < Nyquist

---------------------------------------------------------------------------
(* Calibration corrections *)

\* The corrections are Python floats: binary floating point in which every
\* operation returns the representable number nearest to the exact result,
\* ties to even.  The model keeps this arithmetic with a shorter significand
\* (binary64 keeps 53 bits).  A float is written as an integer multiple of
\* 2^-GridBits, the spacing of the numbers next to zero.

\* bits of the significand
Mantissa == 6

\* the floats next to zero are 2^-GridBits apart
GridBits == 10

\* the float 1.0
One == 2 ^ GridBits

\* the spacing of the floats around the magnitude a / d
RECURSIVE Quantum(_, _, _)
Quantum(a, d, q) ==
    IF a < (2 ^ Mantissa) * q * d THEN q ELSE Quantum(a, d, 2 * q)

\* the float nearest to the rational n / d (d > 0), in multiples of 2^-GridBits
Fl(n, d) ==
    LET a == IF n < 0 THEN -n ELSE n
        q == Quantum(a, d, 1)
        m == q * RoundHalfEven(a, d * q)
    IN  IF n < 0 THEN -m ELSE m

Fadd(x, y) == Fl(x + y, 1)

Fsub(x, y) == Fl(x - y, 1)

Fmul(x, y) == Fl(x * y, One)

Fdiv(x, y) == Fl(x * One, y)

\* float(v) of a decimal given in tenths
FloatOfTenths(v) == Fl(v * One, 10)

\* log10 of the 1/3-octave centers in thousandths, in the order of the table
Log10Milli ==
    <<1498, 1602, 1699, 1799, 1903, 2000, 2097, 2204, 2301, 2398, 2498, 2602,
      2699, 2799, 2903, 3000, 3097, 3204, 3301, 3398, 3498, 3602, 3699, 3799,
      3903, 4000, 4097, 4204, 4301>>

\* math.log10(f) for a center f of the 1/3-octave table
log10(f) ==
    LET tab == base_freqs("3octave")
        i == CHOOSE j \in DOMAIN tab : tab[j] = f
    IN  Fl(Log10Milli[i] * One, 1000)

\* the elements of a set of numbers in increasing order
RECURSIVE sorted(_)
sorted(s) ==
    IF s = {} THEN <<>> ELSE <<SetMin(s)>> \o sorted(s \ {SetMin(s)})

\* interp(fc) over the control points (freqs[i], vals[i]), freqs increasing
interp(fc, freqs, vals) ==
    LET n == Len(freqs)
        logs == [i \in 1..n |-> log10(freqs[i])]
        lf == log10(fc)
    IN  IF lf <= logs[1] THEN vals[1]
        ELSE IF lf >= logs[n] THEN vals[n]
        ELSE LET i == CHOOSE j \in 2..n :
                          lf <= logs[j] /\ \A h \in 2..(j - 1) : lf > logs[h]
                 w == Fdiv(Fsub(lf, logs[i - 1]), Fsub(logs[i], logs[i - 1]))
             IN  Fadd(Fmul(vals[i - 1], Fsub(One, w)), Fmul(vals[i], w))

\* bcorr maps control frequencies to corrections; targets is the band set
build_interpolated_corr(bcorr, targets) ==
    IF DOMAIN bcorr = {} THEN [fc \in targets |-> 0]
    ELSE LET freqs == sorted(DOMAIN bcorr)
             vals == [i \in DOMAIN freqs |-> bcorr[freqs[i]]]
         IN  [fc \in targets |->
                 IF fc \in DOMAIN bcorr THEN bcorr[fc]
                 ELSE interp(fc, freqs, vals)]

\* control frequencies of a calibration: 63 Hz, 250 Hz, 1 kHz
ControlFreqs == {630, 2500, 10000}

\* corrections of a calibration: -2.0 dB, 0.3 dB, 0.7 dB
ControlValues == { FloatOfTenths(v) : v \in {-20, 3, 7} }

Calibrations == UNION { [D -> ControlValues] : D \in SUBSET ControlFreqs }

CorrInit ==
    /\ LoopInit(FaultConfigs)
    /\ call \in [bcorr : Calibrations, targets : {Centers("3octave")}]
    /\ ret = {}

\* main() spreads the calibration over the band set
CallBuildInterpolatedCorr ==
    /\ ret = {}
    /\ ret' = {build_interpolated_corr(call.bcorr, call.targets)}
    /\ UNCHANGED <<cfg, t, running, pre_buf, spec_buf, post_buf_audio,
                   post_buf_spec, S, trigger_log, trigger_states, is_triggered,
                   prominent_buffer, sum_level, latest_payload,
                   spectrum_publish_buffer, spectrum_rolling_buffer,
                   last_spec_pub, stream, sse_seen, call, record_spectrum,
                   switch_state, files, written, published, obs, hist>>

CorrNext == CallBuildInterpolatedCorr

SpecCorr == CorrInit /\ [][CorrNext]_vars

\* the control frequencies of the call
Controls == DOMAIN call.bcorr

\* the correction of a band at a control frequency is the control value
CorrExact(r) == \A fc \in call.targets \cap Controls : r[fc] = call.bcorr[fc]

\* outside the control range the correction is the value of the nearest end
CorrClamped(r) ==
    \A fc \in call.targets \ Controls :
        /\ fc < SetMin(Controls) => r[fc] = call.bcorr[SetMin(Controls)]
        /\ fc > SetMax(Controls) => r[fc] = call.bcorr[SetMax(Controls)]

\* inside the control range the correction lies between the values of the
\* two control points next to the band
CorrBetween(r) ==
    \A fc \in call.targets \ Controls :
        (SetMin(Controls) < fc /\ fc < SetMax(Controls)) =>
            LET below == call.bcorr[SetMax({f \in Controls : f < fc})]
                above == call.bcorr[SetMin({f \in Controls : f > fc})]
            IN  \/ below <= r[fc] /\ r[fc] <= above
                \/ above <= r[fc] /\ r[fc] <= below

\* C30: the correction of a band equals the control value at a control
\* frequency, the value of the lowest (highest) control point below (above)
\* the control range, and lies between the two adjacent control values
\* otherwise; without control points it is 0 for every band.
C30_Interpolation ==
    \A r \in ret :
        IF Controls = {} THEN \A fc \in call.targets : r[fc] = 0
        ELSE CorrExact(r) /\ CorrClamped(r) /\ CorrBetween(r)

---------------------------------------------------------------------------
(* Reading the calibration *)

\* s.replace(",", ".")
CommaToDot(s) ==
    CASE s = "0,5" -> "0.5"
      [] s = "31,5" -> "31.5"
      [] OTHER -> s

\* float(s) of a calibration text: the set holding the value (in tenths),
\* empty when float() raises
CalFloat(s) ==
    CASE s = "0.0" -> {0}
      [] s = "0.5" -> {5}
      [] s = "2" -> {20}
      [] s = "-1" -> {-10}
      [] s = "63" -> {630}
      [] s = "31.5" -> {315}
      [] OTHER -> {}

\* freq_key.replace("cal", "").replace("_", ".")
CalKey(freq_key) ==
    CASE freq_key = "cal63" -> "63"
      [] freq_key = "cal31_5" -> "31.5"
      [] freq_key = "cal31,5" -> "31,5"
      [] freq_key = "calx" -> "x"
      [] OTHER -> freq_key

\* the band entries of the file that parse, by frequency
BandEntries(band_corr_db) ==
    LET good == { k \in DOMAIN band_corr_db :
                    /\ CalFloat(CommaToDot(k)) # {}
                    /\ CalFloat(CommaToDot(band_corr_db[k])) # {} }
        kf(k) == CHOOSE f \in CalFloat(CommaToDot(k)) : TRUE
        vf(k) == CHOOSE v \in CalFloat(CommaToDot(band_corr_db[k])) : TRUE
    IN  [f \in { kf(k) : k \in good } |->
            vf(CHOOSE k \in good : kf(k) = f)]

\* load_cal that reads the band entries although the offset is unreadable
load_cal_keep_bands(file) ==
    IF file = {} THEN [off |-> 0, band |-> EmptyMap]
    ELSE LET d == CHOOSE x \in file : TRUE
             off == CalFloat(CommaToDot(d.offset_db))
         IN  [off |-> IF off = {} THEN 0 ELSE CHOOSE v \in off : TRUE,
              band |-> BandEntries(d.band_corr_db)]

\* load_cal(path); file is empty when the file cannot be read.  The parse of
\* offset_db stands before the loop over the band entries, inside the outer
\* try: when it raises, the function returns what it had, 0.0 and {}.
load_cal(file) ==
    IF file = {} THEN [off |-> 0, band |-> EmptyMap]
    ELSE LET d == CHOOSE x \in file : TRUE
             off == CalFloat(CommaToDot(d.offset_db))
         IN  IF off = {} THEN [off |-> 0, band |-> EmptyMap]
             ELSE [off |-> CHOOSE v \in off : TRUE,
                   band |-> BandEntries(d.band_corr_db)]

\* one entry of the calibration of the UI applied to band_corr
ApplyCalibration(band_corr, freq_key, offset_str) ==
    LET freq == CalFloat(CommaToDot(CalKey(freq_key)))
        offset == IF offset_str = "" THEN {0}
                  ELSE CalFloat(CommaToDot(offset_str))
    IN  IF freq = {} \/ offset = {} THEN band_corr
        ELSE LET f == CHOOSE x \in freq : TRUE
                 o == CHOOSE x \in offset : TRUE
             IN  IF o = 0 THEN band_corr
                 ELSE MapPut(band_corr, f,
                             (IF f \in DOMAIN band_corr THEN band_corr[f] ELSE 0) + o)

RECURSIVE ApplyAll(_, _, _)
ApplyAll(band_corr, calibration, keys) ==
    IF keys = {} THEN band_corr
    ELSE LET k == CHOOSE x \in keys : TRUE
         IN  ApplyAll(ApplyCalibration(band_corr, k, calibration[k]),
                      calibration, keys \ {k})

\* cal_off and band_corr as main() has them before the filters are built
Calibrate(file, calibration) ==
    LET c == load_cal(file)
    IN  [cal_off |-> c.off,
         band_corr |-> ApplyAll(c.band, calibration, DOMAIN calibration)]

Texts == {"2", "0,5", "x"}

CalFiles ==
    { [offset_db |-> o, band_corr_db |-> b] :
        o \in {"0.0", "-1", "x"},
        b \in UNION { [D -> Texts] : D \in SUBSET {"63", "31,5", "abc"} } }

UiCalibrations ==
    UNION { [D -> {"2", "x", ""}] : D \in SUBSET {"cal63", "cal31_5", "calx"} }

CalInit ==
    /\ LoopInit(FaultConfigs)
    /\ call \in [file : {{}} \cup { {d} : d \in CalFiles },
                 calibration : UiCalibrations]
    /\ ret = {}

\* main() reads the calibration file and the calibration of the UI
CallCalibrate ==
    /\ ret = {}
    /\ ret' = {Calibrate(call.file, call.calibration)}
    /\ UNCHANGED <<cfg, t, running, pre_buf, spec_buf, post_buf_audio,
                   post_buf_spec, S, trigger_log, trigger_states, is_triggered,
                   prominent_buffer, sum_level, latest_payload,
                   spectrum_publish_buffer, spectrum_rolling_buffer,
                   last_spec_pub, stream, sse_seen, call, record_spectrum,
                   switch_state, files, written, published, obs, hist>>

CalNext == CallCalibrate

SpecCal == CalInit /\ [][CalNext]_vars

\* what a text contributes: its value when it is a number, else nothing
Contribution(s) ==
    IF CalFloat(CommaToDot(s)) = {} THEN 0
    ELSE CHOOSE v \in CalFloat(CommaToDot(s)) : TRUE

WellFormed(s) == CalFloat(CommaToDot(s)) # {}

\* the correction the well-formed entries of both inputs give to frequency f
ExpectedCorr(f) ==
    LET fileKeys == IF call.file = {} THEN {}
                    ELSE LET d == CHOOSE x \in call.file : TRUE
                         IN  { k \in DOMAIN d.band_corr_db :
                                 /\ CalFloat(CommaToDot(k)) = {f}
                                 /\ WellFormed(d.band_corr_db[k]) }
        uiKeys == { k \in DOMAIN call.calibration :
                      /\ CalFloat(CommaToDot(CalKey(k))) = {f}
                      /\ WellFormed(call.calibration[k]) }
        fromFile == IF fileKeys = {} THEN 0
                    ELSE LET d == CHOOSE x \in call.file : TRUE
                         IN  Contribution(d.band_corr_db[CHOOSE k \in fileKeys : TRUE])
        fromUi == IF uiKeys = {} THEN 0
                  ELSE Contribution(call.calibration[CHOOSE k \in uiKeys : TRUE])
    IN  [entered |-> fileKeys # {} \/ (uiKeys # {} /\ fromUi # 0),
         value |-> fromFile + fromUi]

\* C31: a malformed calibration entry (band key, band value or global offset)
\* contributes nothing and is never fatal, and every well-formed entry of the
\* same input still contributes its correction.
C31_MalformedSkipped ==
    \A r \in ret :
        /\ r.cal_off = (IF call.file = {} THEN 0
                        ELSE Contribution((CHOOSE x \in call.file : TRUE).offset_db))
        /\ \A f \in {315, 630} :
              IF ExpectedCorr(f).entered
              THEN f \in DOMAIN r.band_corr /\ r.band_corr[f] = ExpectedCorr(f).value
              ELSE f \notin DOMAIN r.band_corr
        /\ DOMAIN r.band_corr \subseteq {315, 630}

---------------------------------------------------------------------------
(* The contents of a finalized record *)

\* the block in which the event of a record started, and the block in which
\* it was finalized (the record carries both clock readings)
StartBlock(rec) == rec.event_id \div cfg.block_sec

StopBlock(rec) == rec.stop_time \div cfg.block_sec

\* the blocks a .. b in order
BlockSpan(a, b) == [i \in 1..(b - a + 1) |-> a + i - 1]

\* C32: the aggregate levels behind the peak and the average of a finalized
\* record are those of exactly the blocks processed while the event was in
\* progress, one per block from the block after the start to the block that
\* completes the post-roll.
C32_AggregateOverEvent ==
    \A id \in DOMAIN files :
        files[id].overall_dbA
            = BlockSpan(StartBlock(files[id]) + 1, StopBlock(files[id]))

\* a second event has been finalized after a first one
C32_Witness ==
    /\ Len(written) = 2
    /\ \A id \in DOMAIN files : Len(files[id].overall_dbA) >= 2

\* C33: the audio of a finalized record holds each captured block at most
\* once and in capture order, one contiguous span ending with the last
\* post-roll block, and the recorded duration is the number of distinct
\* blocks times the block duration.
C33_ContiguousAudio ==
    \A id \in DOMAIN files :
        LET audio == files[id].audio
        IN  /\ \A i \in 1..(Len(audio) - 1) : audio[i + 1] = audio[i] + 1
            /\ audio # <<>> => audio[Len(audio)] = StopBlock(files[id])
            /\ files[id].recorded_duration
                 = Cardinality({ audio[i] : i \in DOMAIN audio }) * cfg.block_sec

\* C34: the trigger log of a finalized record holds only entries logged
\* between the hold onset of its event and its finalization (hist.stale
\* counts the entries of the log that are older than the hold onset), and the
\* log is empty after the finalization.
C34_TriggerLogStep ==
    written' # written => hist.stale = 0 /\ trigger_log' = <<>>

C34_TriggerLogOfEvent == [][C34_TriggerLogStep]_vars

\* between blocks: an event directory is assigned exactly when an event is
\* in progress, and the hold is 0 while one is
EventStateConsistent ==
    /\ (S.cur_dir # NoneVal) <=> S.trig
    /\ S.trig => S.hold = 0

\* an event starts only when none is in progress, and an event in progress
\* ends only by being finalized
OneEventStep ==
    /\ (S'.cur_dir # NoneVal /\ S'.cur_dir # S.cur_dir) =>
           (S.cur_dir = NoneVal /\ ~S.trig /\ S'.cur_dir \notin DOMAIN files)
    /\ (S.trig /\ ~S'.trig) => written' = Append(written, S.cur_dir)

\* C35: between blocks an event id/directory is assigned exactly when an
\* event is in progress; at most one event is in progress, a new event starts
\* only after the previous one has been finalized, and the accumulated hold
\* is 0 whenever an event is in progress.
C35_OneEventAtATime == []EventStateConsistent /\ [][OneEventStep]_vars

\* a second event is in progress after the first one has been finalized
C35_Witness == S.trig /\ S.cur_dir # NoneVal /\ Len(written) = 1

---------------------------------------------------------------------------
(* The required hold and specs on absent bands *)

AbsentConfigs ==
    { Config(15, 20, 30, logic, trigs, NoProm, TwoBands) :
        logic \in {"AND", "OR"},
        trigs \in { <<Trig("63", 60, 0), Trig("999", 60, 20)>>,
                    <<Trig("63", 60, 40), Trig("999", 60, 20)>>,
                    <<Trig("125", 60, 20), Trig("999", 60, 20)>> } }

SpecAbsent == InitWith(AbsentConfigs) /\ [][Next]_vars

\* the specs of c without those on a band that is not in the band set
RECURSIVE WithoutAbsent(_, _)
WithoutAbsent(c, i) ==
    IF i > Len(c.triggers) THEN <<>>
    ELSE (IF i \in AbsentSpecs(c) THEN <<>> ELSE <<c.triggers[i]>>)
         \o WithoutAbsent(c, i + 1)

\* C36: a spec whose target band is absent from the band set leaves the
\* required hold duration at the value it would have if the spec were not
\* configured.
C36_AbsentSpecNoDuration ==
    (t > 0 /\ running) =>
        obs.required_duration = RequiredDuration(WithoutAbsent(cfg, 1), cfg.logic)

---------------------------------------------------------------------------
(* The configured post-roll *)

\* the blocks of false condition that a post-roll of preBuffer seconds takes
PreBufferBlocks(c) == (c.preBuffer + c.block_sec - 1) \div c.block_sec

\* C37: the post-roll is the configured "Pre and Post Buffer Time": an event
\* in progress is finalized in the block that completes
\* ceil(preBuffer / block_sec) consecutive blocks of false condition.
C37_PostRollIsPreBufferStep ==
    (Processed /\ S.trig) =>
        (Len(written') = Len(written) + 1
            <=> (~obs'.trigger_event /\ hist'.falseRun = PreBufferBlocks(cfg)))

C37_PostRollIsPreBuffer == [][C37_PostRollIsPreBufferStep]_vars

---------------------------------------------------------------------------
(* The spectrum recording switch *)

\* on_connect with rc = 0 publishes the state of the flag (retained)
on_connect ==
    /\ switch_state' = IF record_spectrum THEN "ON" ELSE "OFF"
    /\ UNCHANGED <<cfg, t, running, pre_buf, spec_buf, post_buf_audio,
                   post_buf_spec, S, trigger_log, trigger_states, is_triggered,
                   prominent_buffer, sum_level, latest_payload,
                   spectrum_publish_buffer, spectrum_rolling_buffer,
                   last_spec_pub, stream, sse_seen, call, ret, record_spectrum,
                   files, written, published, obs, hist>>

\* on_message for a message on <topic>/record_spectrum/set; decodes tells
\* whether msg.payload.decode('utf-8') returns (else the except logs it)
on_message(payload, decodes) ==
    /\ record_spectrum' = IF decodes /\ payload = "ON" THEN TRUE
                          ELSE IF decodes /\ payload = "OFF" THEN FALSE
                          ELSE record_spectrum
    /\ switch_state' = IF decodes THEN payload ELSE switch_state
    /\ UNCHANGED <<cfg, t, running, pre_buf, spec_buf, post_buf_audio,
                   post_buf_spec, S, trigger_log, trigger_states, is_triggered,
                   prominent_buffer, sum_level, latest_payload,
                   spectrum_publish_buffer, spectrum_rolling_buffer,
                   last_spec_pub, stream, sse_seen, call, ret,
                   files, written, published, obs, hist>>

Payloads == {"ON", "OFF", "on", "TOGGLE"}

SwitchNext ==
    \/ Next
    \/ on_connect
    \/ \E payload \in Payloads, decodes \in BOOLEAN : on_message(payload, decodes)

SpecSwitch == InitWith(FaultConfigs) /\ [][SwitchNext]_vars

\* C38: after any sequence of messages on record_spectrum/set the last
\* published record_spectrum/state is ON exactly when spectrum recording is
\* enabled.
C38_SwitchStateAgrees == (switch_state = "ON") <=> record_spectrum

---------------------------------------------------------------------------
(* scripts/bump_version.py *)

\* A text is a sequence of tokens: a run of digits (with its value), or one
\* of the symbols "version:", "space", "quote", "dot", "lf" (\n), "crlf"
\* (\r\n), "other" (any other run of characters).
Num(n) == [sym |-> "num", val |-> n]

Sym(s) == [sym |-> s, val |-> 0]

IsNum(text, i) == i <= Len(text) /\ text[i].sym = "num"

IsSym(text, i, s) == i <= Len(text) /\ text[i].sym = s

\* \s* from position i on: the position of the first token that is not
\* white space
RECURSIVE SkipSpace(_, _)
SkipSpace(text, i) ==
    IF i <= Len(text) /\ text[i].sym \in {"space", "lf", "crlf"}
    THEN SkipSpace(text, i + 1) ELSE i

\* the match of  ^version:\s*"?([0-9]+)\.([0-9]+)\.([0-9]+)"?  (re.M) that
\* starts at position i: the set holding its groups and its last position,
\* empty when there is none
MatchAt(text, i) ==
    IF /\ IsSym(text, i, "version:")
       /\ (i = 1 \/ text[i - 1].sym = "lf")
    THEN LET j == SkipSpace(text, i + 1)
             d == IF IsSym(text, j, "quote") THEN j + 1 ELSE j
         IN  IF /\ IsNum(text, d) /\ IsSym(text, d + 1, "dot")
                /\ IsNum(text, d + 2) /\ IsSym(text, d + 3, "dot")
                /\ IsNum(text, d + 4)
             THEN {[major |-> text[d].val, minor |-> text[d + 2].val,
                    patch |-> text[d + 4].val, first |-> i,
                    last |-> IF IsSym(text, d + 5, "quote") THEN d + 5 ELSE d + 4]}
             ELSE {}
    ELSE {}

\* re.search / re.sub(count=1): the leftmost match
FirstMatch(text) ==
    LET starts == { i \in 1..Len(text) : MatchAt(text, i) # {} }
    IN  IF starts = {} THEN {} ELSE MatchAt(text, SetMin(starts))

\* read_version(text): empty when it raises SystemExit
read_version(text) ==
    { <<m.major, m.minor, m.patch>> : m \in FirstMatch(text) }

write_version(text, major, minor, patch) ==
    IF FirstMatch(text) = {} THEN text
    ELSE LET m == CHOOSE x \in FirstMatch(text) : TRUE
         IN  SubSeq(text, 1, m.first - 1)
             \o <<Sym("version:"), Sym("space"), Sym("quote"), Num(major),
                  Sym("dot"), Num(minor), Sym("dot"), Num(patch), Sym("quote")>>
             \o SubSeq(text, m.last + 1, Len(text))

\* Path.read_text: text mode with universal newlines, \r\n becomes \n
read_text(file) ==
    [i \in DOMAIN file |-> IF file[i].sym = "crlf" THEN Sym("lf") ELSE file[i]]

\* Path.write_text: text mode, \n becomes os.linesep
write_text(text, linesep) ==
    [i \in DOMAIN text |-> IF text[i].sym = "lf" THEN Sym(linesep) ELSE text[i]]

\* the version after the bump; empty for an unknown kind (SystemExit)
Bumped(v, kind) ==
    CASE kind = "patch" -> {<<v[1], v[2], v[3] + 1>>}
      [] kind = "minor" -> {<<v[1], v[2] + 1, 0>>}
      [] kind = "major" -> {<<v[1] + 1, 0, 0>>}
      [] OTHER -> {}

\* bump(path, kind) on a file with the content file, os.linesep being linesep:
\* the content of the file afterwards and the version returned (empty when
\* bump raises SystemExit, which happens before the file is written)
bump(file, kind, linesep) ==
    LET text == read_text(file)
        old == read_version(text)
        new == IF old = {} THEN {} ELSE Bumped(CHOOSE v \in old : TRUE, kind)
    IN  IF new = {} THEN [file |-> file, version |-> {}]
        ELSE LET v == CHOOSE x \in new : TRUE
             IN  [file |-> write_text(write_version(text, v[1], v[2], v[3]), linesep),
                  version |-> new]

\* lines of a config.yaml, without their line ends
ConfigLines ==
    { <<Sym("other")>>,
      <<Sym("version:"), Sym("space"), Sym("quote"), Num(1), Sym("dot"), Num(2),
        Sym("dot"), Num(3), Sym("quote")>>,
      <<Sym("version:"), Sym("space"), Num(0), Sym("dot"), Num(9), Sym("dot"), Num(9)>>,
      <<Sym("version:")>>,
      <<Sym("space"), Num(4), Sym("dot"), Num(5), Sym("dot"), Num(6)>>,
      <<Sym("space"), Sym("version:"), Sym("space"), Num(1), Sym("dot"), Num(2),
        Sym("dot"), Num(3)>>,
      <<Sym("version:"), Sym("space"), Num(1), Sym("dot"), Num(2)>> }

\* the file made of the lines ls, each ended by eol
RECURSIVE Join(_, _)
Join(ls, eol) ==
    IF ls = <<>> THEN <<>> ELSE Head(ls) \o <<Sym(eol)>> \o Join(Tail(ls), eol)

\* the longest file has this many lines
MaxLines == 2

ConfigFiles ==
    { Join(ls, eol) :
        ls \in UNION { [1..n -> ConfigLines] : n \in 1..MaxLines },
        eol \in {"lf", "crlf"} }

BumpInit ==
    /\ LoopInit(FaultConfigs)
    /\ call \in [file : ConfigFiles,
                 kind : {"patch", "minor", "major", "build"},
                 linesep : {"lf", "crlf"}]
    /\ ret = {}

\* main() of bump_version.py
CallBump ==
    /\ ret = {}
    /\ ret' = {bump(call.file, call.kind, call.linesep)}
    /\ UNCHANGED <<cfg, t, running, pre_buf, spec_buf, post_buf_audio,
                   post_buf_spec, S, trigger_log, trigger_states, is_triggered,
                   prominent_buffer, sum_level, latest_payload,
                   spectrum_publish_buffer, spectrum_rolling_buffer,
                   last_spec_pub, stream, sse_seen, call, record_spectrum,
                   switch_state, files, written, published, obs, hist>>

BumpNext == CallBump

SpecBump == BumpInit /\ [][BumpNext]_vars

\* the number of the line of a file that position i lies in
LineOf(file, i) ==
    1 + Cardinality({ j \in 1..(i - 1) : file[j].sym \in {"lf", "crlf"} })

\* line n of a file, its line end included
LineTokens(file, n) ==
    LET idx == { i \in DOMAIN file : LineOf(file, i) = n }
    IN  IF idx = {} THEN <<>> ELSE SubSeq(file, SetMin(idx), SetMax(idx))

NumLines(file) == IF file = <<>> THEN 0 ELSE LineOf(file, Len(file))

\* the version the file held before the call
OldVersion == read_version(read_text(call.file))

\* the new version is the old one bumped, and it was returned
BumpedRight(r) ==
    r.version = Bumped(CHOOSE v \in OldVersion : TRUE, call.kind)

\* the file written reads back as the new version
ReadsBack(r) == read_version(read_text(r.file)) = r.version

\* only the first version line differs between the old and the new file
OnlyVersionLine(r) ==
    LET m == CHOOSE x \in FirstMatch(read_text(call.file)) : TRUE
        n == LineOf(call.file, m.first)
    IN  /\ NumLines(r.file) = NumLines(call.file)
        /\ \A k \in 1..NumLines(call.file) :
              k # n => LineTokens(r.file, k) = LineTokens(call.file, k)

\* C39: bump turns M.m.p into M.m.(p+1), M.(m+1).0 or (M+1).0.0 for the
\* kinds patch, minor and major; the rewritten file reads back through
\* read_version as the new version, and only the first version line of the
\* file has changed.
C39_Bump ==
    \A r \in ret :
        (OldVersion # {} /\ call.kind \in {"patch", "minor", "major"}) =>
            BumpedRight(r) /\ ReadsBack(r) /\ OnlyVersionLine(r)

---------------------------------------------------------------------------
(* Liveness of the recorder *)

LiveConfigs ==
    { Config(15, 20, 30, "OR", trigs, NoProm, TwoBands) :
        trigs \in { <<Trig("63", 60, 0)>>,
                    <<Trig("63", 60, 0), Trig("999", 60, 0), Trig("125", 60, 0)>> } }

\* the loop reads the next block as long as it runs
LiveSpec == InitWith(LiveConfigs) /\ [][Next]_vars /\ WF_vars(Next)

\* the run was cut at the last block read before the condition had been false
\* for the post-roll duration
CutShort == t = MaxBlocks /\ hist.falseRun < PostBlocks(cfg)

\* an event leaves the recorder by exactly one end_event, which writes and
\* publishes its record once and leaves the recorder idle
FinalizedOnceStep ==
    (S.trig /\ ~S'.trig) =>
        /\ written' = Append(written, S.cur_dir)
        /\ Len(published') = Len(published) + 1
        /\ S.cur_dir \notin DOMAIN files
        /\ S.cur_dir \in DOMAIN files'
        /\ S'.cur_dir = NoneVal /\ S'.hold = 0

\* a written record is never changed
RecordsStableStep ==
    \A e \in DOMAIN files : e \in DOMAIN files' /\ files'[e] = files[e]

\* C5: every event that has started is eventually finalized, exactly once, and
\* the recorder returns to idle (unless the blocks end before the condition has
\* been false for the post-roll duration); a finalized record never changes.
C5_EventuallyFinalized ==
    /\ S.trig ~> (~S.trig \/ CutShort)
    /\ [][FinalizedOnceStep /\ RecordsStableStep]_vars

---------------------------------------------------------------------------
(* The end-to-end scenario: block duration 1 s, one band trigger 1000 Hz /    *)
(* 60 dB / 2 s, pre-buffer 5 s, maximum recording length 30 s, the 1000 Hz    *)
(* band at 70 in the blocks spanning the seconds 10..16 and at 50 otherwise.  *)

ScenarioConfigs ==
    { Config(1, 5, 30, logic, <<Trig("1000", 60, 2)>>, NoProm, {500, 1000}) :
        logic \in {"AND", "OR"} }

\* the levels of block k (spanning the seconds k-1 .. k)
ScenarioLevels(k) ==
    { la \in LevelMaps(cfg) : la[1000] = IF k \in 11..16 THEN 70 ELSE 50 }

ScenarioNext ==
    t < ScenarioBlocks /\ \E LA \in ScenarioLevels(t + 1), tel \in Telemetry : Block(LA, tel)

ScenarioSpec == InitWith(ScenarioConfigs) /\ [][ScenarioNext]_vars

\* C7: in the scenario the hold accumulates from the block spanning 10..11, the
\* event starts at t = 12 with the audio of the seconds 7..12, and the record is
\* written at t = 19 with the 12 blocks of the seconds 7..19 and a trigger log of
\* one entry of duration 6.
C7_Scenario ==
    /\ S.hold > 0 => t = 11
    /\ JustStarted => (t = 12 /\ S.event_audio = <<8, 9, 10, 11, 12>>)
    /\ written # <<>> =>
          /\ Len(written) = 1
          /\ files[written[1]].stop_time = 19
          /\ files[written[1]].audio = [i \in 1..12 |-> 7 + i]
          /\ Len(files[written[1]].triggers) = 1
          /\ files[written[1]].triggers[1].duration = 6

====
